---- MODULE Spec2Model ----
(***************************************************************************)
(* Model of the BRICS off-chain oracle core: the pricing service           *)
(* (services/pricing: baseline_model.py, signing.py, determinism.py,       *)
(* crypto.py, app.py) and the risk API (risk_api).                         *)
(*                                                                         *)
(* Conventions.                                                            *)
(*  - A Python str is a sequence of one-character strings; a Python bytes  *)
(*    is a sequence of integers 0..255.                                    *)
(*  - A Python float is an integer number of ticks of 1/10000, or one of   *)
(*    PosInf, NegInf, NaN.  FloatMax is the largest finite float.          *)
(*  - A call returns Ok(v) or Raise(e), e the name of the exception.       *)
(*  - keccak is a 16-bit sponge placed in a 32-byte digest; secp256k1 is   *)
(*    the curve y^2 = x^3 + 7 over F_67 (group order 79).                  *)
(***************************************************************************)
EXTENDS Integers, Sequences, FiniteSets, TLC

VARIABLES
    env,      \* os.environ: name -> str, or None when the name is unset
    backend,  \* the ECC backend eth_keys selected at import
    call,     \* the most recent call into the library: fn, args, ret
    pinned,   \* an earlier call a client holds on to (its arguments and result)
    app       \* services/pricing/app.py as a module: whether its import succeeded

vars == <<env, backend, call, pinned, app>>

----------------------------------------------------------------------------
(* Python values *)

None == <<"<None>">>

Ok(v) == [ok |-> TRUE, val |-> v, err |-> "none"]

Raise(e) == [ok |-> FALSE, val |-> 0, err |-> e]

Abs(x) == IF x < 0 THEN -x ELSE x

Max(a, b) == IF a >= b THEN a ELSE b

Min(a, b) == IF a <= b THEN a ELSE b

\* int(x) on an exact quotient n/d: truncation toward zero
TruncDiv(n, d) == IF n >= 0 THEN n \div d ELSE -((-n) \div d)

Ascii == <<
    " ", "!", "\"", "#", "$", "%", "&", "'", "(", ")", "*", "+", ",", "-", ".", "/",
    "0", "1", "2", "3", "4", "5", "6", "7", "8", "9", ":", ";", "<", "=", ">", "?",
    "@", "A", "B", "C", "D", "E", "F", "G", "H", "I", "J", "K", "L", "M", "N", "O",
    "P", "Q", "R", "S", "T", "U", "V", "W", "X", "Y", "Z", "[", "\\", "]", "^", "_",
    "<grave>", "a", "b", "c", "d", "e", "f", "g", "h", "i", "j", "k", "l", "m", "n", "o",
    "p", "q", "r", "s", "t", "u", "v", "w", "x", "y", "z", "{", "|", "}", "~"
>>

ord(c) == 31 + CHOOSE i \in 1..Len(Ascii) : Ascii[i] = c

IsDigit(c) == c \in {"0", "1", "2", "3", "4", "5", "6", "7", "8", "9"}

\* to_bytes(text=s), str.encode('utf-8') on ASCII text
to_bytes(s) == [i \in 1..Len(s) |-> ord(s[i])]

Digit(n) == Ascii[17 + n]

RECURSIVE NatToStr(_)
NatToStr(n) == IF n < 10 THEN <<Digit(n)>> ELSE NatToStr(n \div 10) \o <<Digit(n % 10)>>

\* str(n), f"{n}"
IntToStr(n) == IF n < 0 THEN <<"-">> \o NatToStr(-n) ELSE NatToStr(n)

RECURSIVE StripLeft(_)
StripLeft(s) == IF s # <<>> /\ Head(s) = " " THEN StripLeft(Tail(s)) ELSE s

RECURSIVE StripRight(_)
StripRight(s) ==
    IF s # <<>> /\ s[Len(s)] = " " THEN StripRight(SubSeq(s, 1, Len(s) - 1)) ELSE s

RECURSIVE DigitsValue(_, _)
DigitsValue(s, acc) ==
    IF s = <<>> THEN acc ELSE DigitsValue(Tail(s), 10 * acc + (ord(Head(s)) - 48))

\* int(s) for a str: surrounding blanks, an optional sign, decimal digits
ParseInt(s) ==
    LET t == StripRight(StripLeft(s))
        signed == t # <<>> /\ Head(t) \in {"+", "-"}
        body == IF signed THEN Tail(t) ELSE t
    IN  IF body = <<>> \/ \E i \in 1..Len(body) : ~IsDigit(body[i])
        THEN Raise("ValueError")
        ELSE IF signed /\ Head(t) = "-"
             THEN Ok(-DigitsValue(body, 0))
             ELSE Ok(DigitsValue(body, 0))

----------------------------------------------------------------------------
(* os.environ *)

EnvNames == {"SEED", "MODEL_JITTER_BPS_OVERRIDE", "RISK_ORACLE_PRIVATE_KEY", "RISK_API_ED25519_SK_HEX"}

\* the value the variable had when the process started with nothing configured
getenv_at_start(name, default) == default

\* os.getenv(name, default); os.getenv(name) is getenv(name, None)
getenv(name, default) == IF env[name] = None THEN default ELSE env[name]

----------------------------------------------------------------------------
(* eth_utils.keccak *)

\* (a * b) % 2^16 without leaving 32 bits
MulMod16(a, b) == ((a % 256) * b + (((a \div 256) * b) % 256) * 256) % 65536

\* bytes lo..hi of bs as one step h := (h * m + c) % 2^16, returned as <<m, c>>:
\* one byte b is the step h := (h * 31 + b + 1) % 2^16
RECURSIVE AbsorbRange(_, _, _)
AbsorbRange(bs, lo, hi) ==
    IF lo > hi THEN <<1, 0>>
    ELSE IF lo = hi THEN <<31, bs[lo] + 1>>
    ELSE LET mid == (lo + hi) \div 2
             l == AbsorbRange(bs, lo, mid)
             r == AbsorbRange(bs, mid + 1, hi)
         IN  <<MulMod16(l[1], r[1]), (MulMod16(l[2], r[1]) + r[2]) % 65536>>

\* h := (h * 31 + b + 1) % 2^16 for each byte b of bs in turn
Absorb(bs, h) ==
    LET step == AbsorbRange(bs, 1, Len(bs))
    IN  (MulMod16(step[1], h) + step[2]) % 65536

keccak(bs) ==
    LET h == Absorb(bs, 40503)
    IN  [i \in 1..32 |-> IF i = 31 THEN h \div 256
                         ELSE IF i = 32 THEN h % 256
                         ELSE (h * i + i) % 256]

----------------------------------------------------------------------------
(* Python float: ticks of 1/10000, saturating at FloatMax *)

FloatMax == 200000

FMaxT == FloatMax * 10000

\* above FloatExact the spacing of floats is 1.0
FloatExact == FloatMax \div 2

FExactT == FloatExact * 10000

PosInf == FMaxT + 1

NegInf == -(FMaxT + 1)

NaN == FMaxT + 2

IsFinite(x) == Abs(x) <= FMaxT

\* x < y on floats: every comparison with NaN is false
FLt(x, y) == x # NaN /\ y # NaN /\ x < y

FNeg(x) == IF x = NaN THEN NaN ELSE -x

\* the float nearest to a magnitude of t ticks, t <= FMaxT: every tick up to
\* FloatExact, then whole numbers only, a tie going to the even neighbour
FRound(t) ==
    LET a == Abs(t)
        w == a \div 10000
        r == a % 10000
        up == r > 5000 \/ (r = 5000 /\ w % 2 = 1)
        m == IF up THEN (w + 1) * 10000 ELSE w * 10000
    IN  IF a <= FExactT THEN t ELSE IF t > 0 THEN m ELSE -m

\* the float nearest to FMaxT + excess ticks, 0 < excess
FRoundUp(excess) ==
    IF excess < 5000 \/ (excess = 5000 /\ FloatMax % 2 = 0) THEN FMaxT ELSE PosInf

FAdd(x, y) ==
    IF x = NaN \/ y = NaN THEN NaN
    ELSE IF x = PosInf THEN (IF y = NegInf THEN NaN ELSE PosInf)
    ELSE IF x = NegInf THEN (IF y = PosInf THEN NaN ELSE NegInf)
    ELSE IF y \in {PosInf, NegInf} THEN y
    ELSE IF x > 0 /\ y > FMaxT - x THEN FRoundUp(y - (FMaxT - x))
    ELSE IF x < 0 /\ y < (-FMaxT) - x THEN FNeg(FRoundUp(((-FMaxT) - x) - y))
    ELSE FRound(x + y)

\* (num/den) * x for a positive constant num/den
FMul(num, den, x) ==
    IF x = NaN THEN NaN
    ELSE IF x = 0 THEN 0
    ELSE LET a == Abs(x)
             q == a \div den
             r == a % den
             inf == IF x > 0 THEN PosInf ELSE NegInf
         IN  IF ~IsFinite(x) \/ q > FMaxT \div num THEN inf
             ELSE LET m == q * num + (r * num) \div den
                  IN  IF m > FMaxT THEN inf ELSE IF x > 0 THEN FRound(m) ELSE -FRound(m)

\* float(n) for an int n
IntToFloat(n) == IF Abs(n) > FloatMax THEN Raise("OverflowError") ELSE Ok(n * 10000)

\* int(x) for a float x
\* int(x) rounding to the nearest integer instead of truncating
FloatToInt_rounded(x) ==
    IF x = NaN THEN Raise("ValueError")
    ELSE IF ~IsFinite(x) THEN Raise("OverflowError")
    ELSE Ok((x + 5000) \div 10000)

FloatToInt(x) ==
    IF x = NaN THEN Raise("ValueError")
    ELSE IF ~IsFinite(x) THEN Raise("OverflowError")
    ELSE Ok(TruncDiv(x, 10000))

RECURSIVE ISqrtBetween(_, _, _)
ISqrtBetween(n, lo, hi) ==
    IF lo >= hi THEN lo
    ELSE LET mid == (lo + hi + 1) \div 2
         IN  IF mid * mid <= n THEN ISqrtBetween(n, mid, hi)
             ELSE ISqrtBetween(n, lo, mid - 1)

\* floor(sqrt(n)) for 0 <= n < 2^30
ISqrt(n) == ISqrtBetween(n, 0, 32767)

\* one decimal digit of a square root: root r, remainder rem of the prefix
SqrtDigit(r, rem) ==
    LET d == CHOOSE e \in 0..9 :
                 /\ (20 * r + e) * e <= rem * 100
                 /\ (e = 9 \/ (20 * r + e + 1) * (e + 1) > rem * 100)
    IN  <<10 * r + d, rem * 100 - (20 * r + d) * d>>

\* 0.6 * math.sqrt(p) in ticks: <<floor, is the value an exact number of ticks>>
SqrtPremium(p) ==
    LET r0 == ISqrt(36 * p)
        s1 == SqrtDigit(r0, 36 * p - r0 * r0)
        s2 == SqrtDigit(s1[1], s1[2])
        s3 == SqrtDigit(s2[1], s2[2])
    IN  <<s3[1], s3[2] = 0>>

----------------------------------------------------------------------------
(* services/pricing/baseline_model.py *)

Default_SEED == <<"4", "2">>

get_seed == getenv("SEED", Default_SEED)

\* int(value + 0.5)
round_half_up(value) == FloatToInt(FAdd(value, 5000))

\* a clamp that returns its argument
clamp_identity(value, min_val, max_val) == value

\* a clamp without the lower limit
clamp_upper_only(value, min_val, max_val) == IF FLt(value, max_val) THEN value ELSE max_val

\* max(min_val, min(max_val, value)) with Python's max and min: the first
\* argument is kept unless the second compares strictly beyond it
clamp(value, min_val, max_val) ==
    LET inner == IF FLt(value, max_val) THEN value ELSE max_val
    IN  IF FLt(min_val, inner) THEN inner ELSE min_val

\* jitter_bps with the empty-seed rule tested before the override
jitter_bps_seed_first(seed, obligor_id, tenor_days, as_of) ==
    LET override == getenv("MODEL_JITTER_BPS_OVERRIDE", None)
        input_str == obligor_id \o <<":">> \o IntToStr(tenor_days) \o <<":">>
                     \o IntToStr(as_of) \o <<":">> \o seed
        hash_bytes == keccak(to_bytes(input_str))
        value == (hash_bytes[31] * 256 + hash_bytes[32]) % 11
    IN  IF seed = <<>> THEN Ok(0)
        ELSE IF override # None THEN ParseInt(override)
        ELSE Ok(value - 5)

jitter_bps(seed, obligor_id, tenor_days, as_of) ==
    LET override == getenv("MODEL_JITTER_BPS_OVERRIDE", None)
        input_str == obligor_id \o <<":">> \o IntToStr(tenor_days) \o <<":">>
                     \o IntToStr(as_of) \o <<":">> \o seed
        hash_bytes == keccak(to_bytes(input_str))
        value == (hash_bytes[31] * 256 + hash_bytes[32]) % 11
    IN  IF override # None THEN ParseInt(override)
        ELSE IF seed = <<>> THEN Ok(0)
        ELSE Ok(value - 5)

\* features.get(key, 0.0)
Get(features, key) == IF key \in DOMAIN features THEN features[key] ELSE 0

score_risk(features, obligor_id, tenor_days, as_of) ==
    LET size == Get(features, "size")
        leverage == Get(features, "leverage")
        volatility == Get(features, "volatility")
        fx_exposure == Get(features, "fxExposure")
        country_risk == Get(features, "countryRisk")
        industry_stress == Get(features, "industryStress")
        collateral_quality == Get(features, "collateralQuality")
        data_quality == Get(features, "dataQuality")
        model_shift == Get(features, "modelShift")
        pd_bps_raw ==
            FAdd(FAdd(FAdd(FAdd(FMul(50, 1, size), FMul(80, 1, leverage)),
                           FMul(40, 1, volatility)),
                      FMul(30, 1, fx_exposure)),
                 FMul(20, 1, country_risk))
        pd_round == round_half_up(pd_bps_raw)
        lgd_bps_raw ==
            FAdd(FAdd(45000000, FMul(10, 1, industry_stress)),
                 FNeg(FMul(5, 1, collateral_quality)))
        lgd_round == round_half_up(lgd_bps_raw)
        score_confidence ==
            clamp(FAdd(FAdd(5000, FMul(1, 20, data_quality)),
                       FNeg(FMul(3, 100, model_shift))),
                  3000, 9500)
    IN  IF ~pd_round.ok THEN pd_round
        ELSE IF ~lgd_round.ok THEN lgd_round
        ELSE Ok([pdBps |-> clamp(pd_round.val, 5, 3000),
                 lgdBps |-> clamp(lgd_round.val, 2000, 9000),
                 scoreConfidence |-> score_confidence])

price_cds(obligor_id, tenor_days, features, pd_bps, lgd_bps, as_of) ==
    LET el_overflow == pd_bps # 0 /\ lgd_bps # 0
                       /\ Abs(pd_bps) > FMaxT \div Abs(lgd_bps)
        el_bps == FRound(pd_bps * lgd_bps)
        tenor_f == IntToFloat(tenor_days)
        liq_bps_raw == FAdd(50000, FMul(1, 50, tenor_f.val))
        jitter == jitter_bps(get_seed, obligor_id, tenor_days, as_of)
        jitter_f == IntToFloat(jitter.val)
        liq_bps == FAdd(liq_bps_raw, jitter_f.val)
        pd_f == IntToFloat(Max(pd_bps, 1))
        root == SqrtPremium(Max(pd_bps, 1))
        rp_bps == root[1]
        fair_spread_bps_raw == FAdd(FAdd(el_bps, liq_bps), rp_bps)
        shifted == FAdd(fair_spread_bps_raw, 5000)
        fair_round ==
            IF ~IsFinite(shifted) THEN FloatToInt(shifted)
            ELSE IF shifted >= 0 THEN Ok(shifted \div 10000)
            ELSE Ok(TruncDiv(shifted + (IF root[2] THEN 0 ELSE 1), 10000))
        volatility == Get(features, "volatility")
        country_risk == Get(features, "countryRisk")
        corr_raw == FMul(100, 1, FAdd(FAdd(150000, FMul(5, 2, volatility)),
                                      FMul(3, 2, country_risk)))
        corr_round == round_half_up(corr_raw)
    IN  IF el_overflow THEN Raise("OverflowError")
        ELSE IF ~tenor_f.ok THEN tenor_f
        ELSE IF ~jitter.ok THEN jitter
        ELSE IF ~jitter_f.ok THEN jitter_f
        ELSE IF ~pd_f.ok THEN pd_f
        ELSE IF ~fair_round.ok THEN fair_round
        ELSE IF ~corr_round.ok THEN corr_round
        ELSE Ok([fairSpreadBps |-> clamp(fair_round.val, 25, 3000),
                 correlationBps |-> clamp(corr_round.val, 1000, 9000),
                 elBps |-> el_bps,
                 liqBps |-> liq_bps,
                 rpBps |-> rp_bps])

get_risk_score_bps(pd_bps, lgd_bps) ==
    IF pd_bps # 0 /\ lgd_bps # 0 /\ Abs(pd_bps) > FMaxT \div Abs(lgd_bps)
    THEN Raise("OverflowError")
    ELSE round_half_up(FRound(pd_bps * lgd_bps))

----------------------------------------------------------------------------
(* bytes, hex and JSON text *)

HexChars == <<"0", "1", "2", "3", "4", "5", "6", "7", "8", "9",
              "a", "b", "c", "d", "e", "f">>

UpperHexChars == <<"0", "1", "2", "3", "4", "5", "6", "7", "8", "9",
                   "A", "B", "C", "D", "E", "F">>

\* the value of a hex digit, -1 for any other character
HexVal(c) ==
    IF \E i \in 1..16 : HexChars[i] = c
    THEN (CHOOSE i \in 1..16 : HexChars[i] = c) - 1
    ELSE IF \E i \in 1..16 : UpperHexChars[i] = c
    THEN (CHOOSE i \in 1..16 : UpperHexChars[i] = c) - 1
    ELSE -1

\* ASCII whitespace
IsSpace(c) == c \in {" ", "\t", "\n", "\r"}

\* bytes.fromhex(s): whitespace is skipped before each pair of digits, never
\* inside a pair
fromhex(s) ==
    LET at == SelectSeq([i \in 1..Len(s) |-> i], LAMBDA i : ~IsSpace(s[i]))
    IN  IF \/ Len(at) % 2 = 1
           \/ \E k \in 1..Len(at) : HexVal(s[at[k]]) < 0
           \/ \E k \in 1..(Len(at) \div 2) : at[2 * k] # at[2 * k - 1] + 1
        THEN Raise("ValueError")
        ELSE Ok([k \in 1..(Len(at) \div 2) |->
                    16 * HexVal(s[at[2 * k - 1]]) + HexVal(s[at[2 * k]])])

\* bytes.hex()
hex(bs) ==
    [i \in 1..(2 * Len(bs)) |->
        IF i % 2 = 1 THEN HexChars[(bs[(i + 1) \div 2] \div 16) + 1]
        ELSE HexChars[(bs[i \div 2] % 16) + 1]]

RECURSIVE NatToHex(_)
NatToHex(n) ==
    IF n < 16 THEN <<HexChars[n + 1]>>
    ELSE NatToHex(n \div 16) \o <<HexChars[(n % 16) + 1]>>

ZeroPad(s, width) == [i \in 1..Max(0, width - Len(s)) |-> "0"] \o s

\* f"{n:0{width}x}": the sign counts in the width
FormatHex(n, width) ==
    IF n < 0 THEN <<"-">> \o ZeroPad(NatToHex(-n), width - 1)
    ELSE ZeroPad(NatToHex(n), width)

\* s[2:]
DropTwo(s) == SubSeq(s, 3, Len(s))

\* n.to_bytes(width, 'big') for 0 <= n < 2^31
ToBytesBE(n, width) ==
    [i \in 1..width |->
        IF width - i >= 4 THEN 0
        ELSE CASE width - i = 0 -> n % 256
               [] width - i = 1 -> (n \div 256) % 256
               [] width - i = 2 -> (n \div 65536) % 256
               [] width - i = 3 -> (n \div 16777216) % 256]

\* int.from_bytes(bs, 'big'), saturating at 2^22 (every modulus used is smaller)
FromBytesBE(bs) ==
    LET n == Len(bs)
        Byte(k) == IF n - k >= 1 THEN bs[n - k] ELSE 0
    IN  IF \E i \in 1..(n - 3) : bs[i] # 0 THEN 4194304
        ELSE Min(4194304, Byte(2) * 65536 + Byte(1) * 256 + Byte(0))

\* 256^k % m
RECURSIVE PowMod(_, _)
PowMod(k, m) ==
    IF k = 0 THEN 1 % m
    ELSE LET h == PowMod(k \div 2, m)
         IN  IF k % 2 = 0 THEN (h * h) % m ELSE (((h * h) % m) * 256) % m

\* int.from_bytes(bs, 'big') % m, for m < 2^11
RECURSIVE FromBytesMod(_, _)
FromBytesMod(bs, m) ==
    LET n == Len(bs)
        half == n \div 2
    IN  IF n = 0 THEN 0
        ELSE IF n = 1 THEN bs[1] % m
        ELSE (FromBytesMod(SubSeq(bs, 1, half), m) * PowMod(n - half, m)
                + FromBytesMod(SubSeq(bs, half + 1, n), m)) % m

----------------------------------------------------------------------------
(* eth_keys over the curve y^2 = x^3 + 7 on F_67, generator (2, 22), order 79 *)

FieldP == 67

OrderN == 79

GenG == <<2, 22>>

\* the point at infinity, as the native backend writes it
Infinity == <<0, 0>>

\* inv(a, m): 0 for a = 0
InvMod(a, m) == IF a % m = 0 THEN 0 ELSE CHOOSE i \in 1..(m - 1) : (a * i) % m = 1

ECAdd(p, q) ==
    IF p = Infinity THEN q
    ELSE IF q = Infinity THEN p
    ELSE IF p[1] = q[1] /\ (p[2] + q[2]) % FieldP = 0 THEN Infinity
    ELSE LET lam == IF p = q
                    THEN (3 * p[1] * p[1] * InvMod(2 * p[2], FieldP)) % FieldP
                    ELSE ((q[2] - p[2]) * InvMod(q[1] - p[1], FieldP)) % FieldP
             x3 == (lam * lam - p[1] - q[1]) % FieldP
         IN  <<x3, (lam * (p[1] - x3) - p[2]) % FieldP>>

RECURSIVE ECMul(_, _)
ECMul(k, p) ==
    IF k = 0 THEN Infinity
    ELSE IF k % 2 = 1 THEN ECAdd(p, ECMul(k - 1, p))
    ELSE LET h == ECMul(k \div 2, p) IN ECAdd(h, h)

\* keys.PrivateKey(b): the secret exponent
PrivateKey(b) ==
    IF Len(b) # 32 THEN Raise("ValidationError")
    ELSE LET d == FromBytesBE(b)
         IN  IF d >= OrderN THEN Raise("InvalidKey")
             ELSE IF d = 0 /\ backend = "coincurve" THEN Raise("InvalidKey")
             ELSE Ok(d)

\* PrivateKey.public_key
PublicKey(d) == ECMul(d, GenG)

\* PublicKey.to_checksum_address(): the last 20 bytes of keccak(x || y)
ToAddress(pub) ==
    LET h == keccak(ToBytesBE(pub[1], 32) \o ToBytesBE(pub[2], 32))
    IN  <<"0", "x">> \o hex(SubSeq(h, 13, 32))

SigS(z, d, k) == (InvMod(k, OrderN) * (z + ECMul(k, GenG)[1] * d)) % OrderN

\* a nonce that also depends on the calls made before this one
GenerateK_by_history(msg_hash, d) ==
    LET k0 == FromBytesMod(ToBytesBE(d, 32) \o msg_hash, OrderN - 1)
    IN  1 + ((k0 + (IF pinned.fn = "none" THEN 0 ELSE 1)) % (OrderN - 1))

\* deterministic_generate_k (RFC 6979): a nonce fixed by digest and key
GenerateK(msg_hash, d) ==
    LET z == FromBytesMod(msg_hash, OrderN)
        k0 == FromBytesMod(ToBytesBE(d, 32) \o msg_hash, OrderN - 1)
        Nonce(i) == 1 + ((k0 + i) % (OrderN - 1))
    IN  IF \E i \in 0..(OrderN - 2) : SigS(z, d, Nonce(i)) # 0
        THEN Nonce(CHOOSE i \in 0..(OrderN - 2) :
                      /\ SigS(z, d, Nonce(i)) # 0
                      /\ \A j \in 0..(i - 1) : SigS(z, d, Nonce(j)) = 0)
        ELSE Nonce(0)

\* PrivateKey.sign_msg_hash(msg_hash): r || s || v with s in the lower half
SignMsgHash(msg_hash, d) ==
    LET z == FromBytesMod(msg_hash, OrderN)
        k == GenerateK(msg_hash, d)
        R == ECMul(k, GenG)
        s_raw == SigS(z, d, k)
        high == s_raw * 2 >= OrderN
        v == IF high THEN 1 - (R[2] % 2) ELSE R[2] % 2
        s == IF high THEN OrderN - s_raw ELSE s_raw
    IN  ToBytesBE(R[1], 32) \o ToBytesBE(s, 32) \o <<v>>

\* a square root of a modulo FieldP (FieldP = 3 mod 4), -1 when there is none
SqrtMod(a) ==
    IF \E y \in 0..(FieldP - 1) : (y * y) % FieldP = a % FieldP
    THEN CHOOSE y \in 0..(FieldP - 1) : (y * y) % FieldP = a % FieldP
    ELSE -1

\* Signature(sig_bytes).recover_public_key_from_msg_hash(msg_hash)
RecoverPublicKey(msg_hash, vrs) ==
    IF Len(vrs) # 65 THEN Raise("ValidationError")
    ELSE LET r == FromBytesBE(SubSeq(vrs, 1, 32))
             s == FromBytesBE(SubSeq(vrs, 33, 64))
             v == vrs[65]
             z == FromBytesMod(msg_hash, OrderN)
             beta == SqrtMod(r * r * r + 7)
             y == IF beta % 2 = v THEN beta ELSE FieldP - beta
             zG == ECMul((OrderN - z) % OrderN, GenG)
             sR == ECMul(s, <<r, y>>)
         IN  IF v \notin {0, 1} \/ r >= OrderN \/ s >= OrderN
             THEN Raise("ValidationError")
             ELSE IF r >= FieldP \/ beta < 0 \/ r = 0 \/ s = 0
             THEN Raise("BadSignature")
             ELSE Ok(ECMul(InvMod(r, OrderN), ECAdd(zG, sR)))

----------------------------------------------------------------------------
(* services/pricing/signing.py *)

\* the characters of a feature key
KeyText(k) ==
    CASE k = "size" -> <<"s", "i", "z", "e">>
      [] k = "leverage" -> <<"l", "e", "v", "e", "r", "a", "g", "e">>
      [] k = "volatility" -> <<"v", "o", "l", "a", "t", "i", "l", "i", "t", "y">>
      [] k = "fxExposure" -> <<"f", "x", "E", "x", "p", "o", "s", "u", "r", "e">>
      [] k = "countryRisk" -> <<"c", "o", "u", "n", "t", "r", "y", "R", "i", "s", "k">>
      [] k = "industryStress" -> <<"i", "n", "d", "u", "s", "t", "r", "y", "S", "t", "r", "e", "s", "s">>
      [] k = "collateralQuality" -> <<"c", "o", "l", "l", "a", "t", "e", "r", "a", "l", "Q", "u", "a", "l", "i", "t", "y">>
      [] k = "dataQuality" -> <<"d", "a", "t", "a", "Q", "u", "a", "l", "i", "t", "y">>
      [] k = "modelShift" -> <<"m", "o", "d", "e", "l", "S", "h", "i", "f", "t">>
      [] k = "extra" -> <<"e", "x", "t", "r", "a">>

\* a < b for str, by code point
RECURSIVE StrLess(_, _)
StrLess(a, b) ==
    IF b = <<>> THEN FALSE
    ELSE IF a = <<>> THEN TRUE
    ELSE IF Head(a) # Head(b) THEN ord(Head(a)) < ord(Head(b))
    ELSE StrLess(Tail(a), Tail(b))

\* sorted(keys)
RECURSIVE SortedKeys(_)
SortedKeys(ks) ==
    IF ks = {} THEN <<>>
    ELSE LET first == CHOOSE k \in ks :
                          \A other \in ks \ {k} : StrLess(KeyText(k), KeyText(other))
         IN  <<first>> \o SortedKeys(ks \ {first})

RECURSIVE StripZeros(_)
StripZeros(s) ==
    IF Len(s) > 1 /\ s[Len(s)] = "0" THEN StripZeros(SubSeq(s, 1, Len(s) - 1)) ELSE s

\* float.__repr__ as json.dumps writes it
FloatRepr(x) ==
    IF x = NaN THEN <<"N", "a", "N">>
    ELSE IF x = PosInf THEN <<"I", "n", "f", "i", "n", "i", "t", "y">>
    ELSE IF x = NegInf THEN <<"-", "I", "n", "f", "i", "n", "i", "t", "y">>
    ELSE (IF x < 0 THEN <<"-">> ELSE <<>>)
         \o NatToStr(Abs(x) \div 10000) \o <<".">>
         \o StripZeros(ZeroPad(NatToStr(Abs(x) % 10000), 4))

\* Python values: an int, a float in ticks, a str, a bool, a list, and a dict
\* as its items <<key, value>> in insertion order
PyInt(n) == <<"int", n>>

PyFloat(x) == <<"float", x>>

PyStr(s) == <<"str", s>>

PyBool(b) == <<"bool", b>>

PyList(items) == <<"list", items>>

PyDict(items) == <<"dict", items>>

isinstance(value, type) == value[1] = type

\* the dict a mapping of features is, its floats inserted in some order
FeatureDict(features) ==
    LET ks == SortedKeys(DOMAIN features)
    IN  PyDict([i \in 1..Len(ks) |-> <<KeyText(ks[i]), PyFloat(features[ks[i]])>>])

\* the items in insertion order, as json.dumps writes them without sort_keys
sorted_items_unsorted(items) == items

\* sorted(dct.items()): an item's place is the number of keys below its key
sorted_items(items) ==
    [p \in 1..Len(items) |->
        items[CHOOSE i \in 1..Len(items) :
                Cardinality({j \in 1..Len(items) : StrLess(items[j][1], items[i][1])}) = p - 1]]

RECURSIVE dumps(_)
RECURSIVE DumpItems(_, _)
\* the members of a list (keyed = FALSE) or of a dict, joined with ','
DumpItems(items, keyed) ==
    IF items = <<>> THEN <<>>
    ELSE (IF keyed THEN <<"\"">> \o Head(items)[1] \o <<"\"", ":">> \o dumps(Head(items)[2])
          ELSE dumps(Head(items)))
         \o (IF Len(items) > 1 THEN <<",">> ELSE <<>>)
         \o DumpItems(Tail(items), keyed)

\* json.dumps(obj, sort_keys=True, separators=(',', ':'))
dumps(obj) ==
    CASE isinstance(obj, "int") -> IntToStr(obj[2])
      [] isinstance(obj, "float") -> FloatRepr(obj[2])
      [] isinstance(obj, "str") -> <<"\"">> \o obj[2] \o <<"\"">>
      [] isinstance(obj, "bool") -> IF obj[2] THEN <<"t", "r", "u", "e">> ELSE <<"f", "a", "l", "s", "e">>
      [] isinstance(obj, "list") -> <<"[">> \o DumpItems(obj[2], FALSE) \o <<"]">>
      [] isinstance(obj, "dict") -> <<"{">> \o DumpItems(sorted_items(obj[2]), TRUE) \o <<"}">>

canonical_features_hash(features) == keccak(to_bytes(dumps(features)))

\* a serialisation of the field names alone
canonical_json_names_only(obj) ==
    LET items == sorted_items(obj[2])
    IN  Ok(to_bytes(dumps(PyList([i \in 1..Len(items) |-> PyStr(items[i][1])]))))

\* risk_api/signing.py: the float fields of obj become int(value), then the
\* sorted dump encoded as UTF-8
canonical_json(obj) ==
    LET items == sorted_items(obj[2])
        as_int == [i \in 1..Len(items) |->
                     IF isinstance(items[i][2], "float") THEN FloatToInt(items[i][2][2])
                     ELSE Ok(0)]
        failed == {i \in 1..Len(items) : ~as_int[i].ok}
        canonical_obj == PyDict([i \in 1..Len(items) |->
                            IF isinstance(items[i][2], "float")
                            THEN <<items[i][1], PyInt(as_int[i].val)>>
                            ELSE items[i]])
    IN  IF failed # {} THEN as_int[CHOOSE i \in failed : \A j \in failed : i <= j]
        ELSE Ok(to_bytes(dumps(canonical_obj)))

model_id_hash(model_id) == keccak(to_bytes(model_id))

\* eth_abi: a bytes32 value in one slot, padded on the right
EncodeBytes32(b) ==
    IF Len(b) > 32 THEN Raise("ValueOutOfBounds")
    ELSE Ok(b \o [i \in 1..(32 - Len(b)) |-> 0])

\* eth_abi: a uint<bits> value in one slot, big-endian
EncodeUint(bits, n) ==
    IF n < 0 \/ (bits = 16 /\ n > 65535) THEN Raise("ValueOutOfBounds")
    ELSE Ok(ToBytesBE(n, 32))

\* the encoding with the two uint16 slots in the other order
abi_encode_spread_first(portfolio_id, as_of, risk_score, correlation_bps, spread_bps, model_hash, features_hash) ==
    LET slots == <<EncodeBytes32(portfolio_id), EncodeUint(64, as_of),
                   EncodeUint(256, risk_score), EncodeUint(16, spread_bps),
                   EncodeUint(16, correlation_bps), EncodeBytes32(model_hash),
                   EncodeBytes32(features_hash)>>
    IN  IF \E i \in 1..7 : ~slots[i].ok THEN Raise("ValueOutOfBounds")
        ELSE Ok(slots[1].val \o slots[2].val \o slots[3].val \o slots[4].val
                \o slots[5].val \o slots[6].val \o slots[7].val)

\* eth_abi.encode(['bytes32','uint64','uint256','uint16','uint16','bytes32','bytes32'], [...])
abi_encode(portfolio_id, as_of, risk_score, correlation_bps, spread_bps, model_hash, features_hash) ==
    LET slots == <<EncodeBytes32(portfolio_id), EncodeUint(64, as_of),
                   EncodeUint(256, risk_score), EncodeUint(16, correlation_bps),
                   EncodeUint(16, spread_bps), EncodeBytes32(model_hash),
                   EncodeBytes32(features_hash)>>
    IN  IF \E i \in 1..7 : ~slots[i].ok THEN Raise("ValueOutOfBounds")
        ELSE Ok(slots[1].val \o slots[2].val \o slots[3].val \o slots[4].val
                \o slots[5].val \o slots[6].val \o slots[7].val)

encode_payload(portfolio_id, as_of, risk_score, correlation_bps, spread_bps, model_hash, features_hash) ==
    LET encoded == abi_encode(portfolio_id, as_of, risk_score, correlation_bps,
                              spread_bps, model_hash, features_hash)
    IN  IF encoded.ok THEN Ok(keccak(encoded.val)) ELSE encoded

digest(portfolio_id, as_of, risk_score, correlation_bps, spread_bps, model_id, features) ==
    encode_payload(portfolio_id, as_of, risk_score, correlation_bps, spread_bps,
                   model_id_hash(model_id), canonical_features_hash(FeatureDict(features)))

sign_digest(digest_bytes, private_key) ==
    LET key_bytes == fromhex(DropTwo(private_key))
        pk == PrivateKey(key_bytes.val)
    IN  IF ~key_bytes.ok THEN key_bytes
        ELSE IF ~pk.ok THEN pk
        ELSE IF Len(digest_bytes) # 32 THEN Raise("ValidationError")
        ELSE Ok(<<"0", "x">> \o hex(SignMsgHash(digest_bytes, pk.val)))

recover(digest_bytes, signature) ==
    LET sig_bytes == fromhex(DropTwo(signature))
        public_key == RecoverPublicKey(digest_bytes, sig_bytes.val)
    IN  IF ~sig_bytes.ok THEN sig_bytes
        ELSE IF Len(digest_bytes) # 32 THEN Raise("ValidationError")
        ELSE IF ~public_key.ok THEN public_key
        ELSE Ok(ToAddress(public_key.val))

load_or_create_key ==
    LET key == getenv("RISK_ORACLE_PRIVATE_KEY", None)
        seed == ParseInt(getenv("SEED", Default_SEED))
    IN  IF key # None /\ key # <<>> THEN Ok(key)
        ELSE IF ~seed.ok THEN seed
        ELSE Ok(<<"0", "x">> \o FormatHex(seed.val, 64))

\* Account.from_key(private_key).address: the key text with or without 0x
public_address(private_key) ==
    LET text == IF Len(private_key) >= 2
                   /\ SubSeq(private_key, 1, 2) \in {<<"0", "x">>, <<"0", "X">>}
                THEN DropTwo(private_key) ELSE private_key
        key_bytes == fromhex(IF Len(text) % 2 = 1 THEN <<"0">> \o text ELSE text)
        pk == PrivateKey(key_bytes.val)
    IN  IF ~key_bytes.ok THEN key_bytes
        ELSE IF ~pk.ok THEN Raise("ValueError")
        ELSE Ok(ToAddress(PublicKey(pk.val)))

----------------------------------------------------------------------------
(* Calls into the library *)

NoCall == [fn |-> "none", args |-> <<>>, ret |-> Ok(0)]

NotImported == [imported |-> FALSE, error |-> "none"]

EnvUnset == [n \in EnvNames |-> None]

\* an int too large to convert to a float
BigInt == FloatMax + 1

ObligorIds == {<<"A", "C", "M", "E", "-", "L", "L", "C">>, <<"t", "e", "s", "t">>}

AsOfs == {0, 1726000000}

TenorDays == {-365, 0, 25, 365, BigInt}

FeatureKeys == {"size", "leverage", "volatility", "fxExposure", "countryRisk",
                "industryStress", "collateralQuality", "dataQuality", "modelShift"}

\* the golden vector of test_golden_vector_a
GoldenFeatures ==
    [k \in FeatureKeys |->
        CASE k = "size" -> 12000
          [] k = "leverage" -> 5000
          [] k = "volatility" -> 3000
          [] k = "fxExposure" -> 1000
          [] k = "countryRisk" -> 2000
          [] k = "industryStress" -> 4000
          [] k = "collateralQuality" -> 7000
          [] k = "dataQuality" -> 8000
          [] k = "modelShift" -> 1000]

EmptyFeatures == [k \in {} |-> 0]

\* float values a feature takes: -max, -1.0, 0.0, 0.5, 500.0, max
FeatureValues == {-FMaxT, -10000, 0, 5000, 5000000, FMaxT}

\* base with the keys k1 and k2 set to v1 and v2
Overlay(base, k1, v1, k2, v2) ==
    [k \in DOMAIN base \cup {k1, k2} |->
        IF k = k2 THEN v2 ELSE IF k = k1 THEN v1 ELSE base[k]]

ScoreFeatures ==
    {Overlay(base, k1, v1, k2, v2) :
        base \in {EmptyFeatures, GoldenFeatures},
        k1 \in FeatureKeys, v1 \in FeatureValues,
        k2 \in FeatureKeys \cup {"extra"}, v2 \in FeatureValues}

PriceFeatures ==
    {EmptyFeatures, GoldenFeatures}
    \cup {Overlay(EmptyFeatures, "volatility", v1, "countryRisk", v2) :
            v1 \in FeatureValues, v2 \in {0, 5000000, FMaxT}}

PdInputs == {-1, 5, 25, 119, 3000, BigInt}

LgdInputs == {0, 2000, 4501, 9000}

Seeds == {<<>>, <<"4", "2">>, <<"7">>}

Overrides == {None, <<"0">>, <<"3">>, <<"-", "5">>, <<"6">>, <<"a", "b", "c">>}

Pending == [ok |-> FALSE, val |-> 0, err |-> "pending"]

\* a call that has been made and has not returned yet
Invoke(fn, args) == [fn |-> fn, args |-> args, ret |-> Pending]

ScoreCalls(Features, Obligors, Tenors, Times) ==
    {Invoke("score_risk", [features |-> f, obligor_id |-> o,
                           tenor_days |-> t, as_of |-> a]) :
        f \in Features, o \in Obligors, t \in Tenors, a \in Times}

PriceCalls(Obligors, Tenors, Features, Pds, Lgds, Times) ==
    {Invoke("price_cds", [obligor_id |-> o, tenor_days |-> t, features |-> f,
                          pd_bps |-> p, lgd_bps |-> l, as_of |-> a]) :
        o \in Obligors, t \in Tenors, f \in Features, p \in Pds, l \in Lgds,
        a \in Times}

JitterCalls(SeedArgs, Obligors, Tenors, Times) ==
    {Invoke("jitter_bps", [seed |-> s, obligor_id |-> o,
                           tenor_days |-> t, as_of |-> a]) :
        s \in SeedArgs, o \in Obligors, t \in Tenors, a \in Times}

RiskScoreCalls(Pds, Lgds) ==
    {Invoke("get_risk_score_bps", [pd_bps |-> p, lgd_bps |-> l]) : p \in Pds, l \in Lgds}

Running(fn) == call.fn = fn /\ call.ret.err = "pending"

Done(fn) == call.fn = fn /\ call.ret.err # "pending"

Return_score_risk ==
    /\ Running("score_risk")
    /\ call' = [call EXCEPT !.ret =
                   score_risk(call.args.features, call.args.obligor_id,
                              call.args.tenor_days, call.args.as_of)]
    /\ UNCHANGED <<env, backend, pinned, app>>

Return_price_cds ==
    /\ Running("price_cds")
    /\ call' = [call EXCEPT !.ret =
                   price_cds(call.args.obligor_id, call.args.tenor_days,
                             call.args.features, call.args.pd_bps,
                             call.args.lgd_bps, call.args.as_of)]
    /\ UNCHANGED <<env, backend, pinned, app>>

Return_get_risk_score_bps ==
    /\ Running("get_risk_score_bps")
    /\ call' = [call EXCEPT !.ret =
                   get_risk_score_bps(call.args.pd_bps, call.args.lgd_bps)]
    /\ UNCHANGED <<env, backend, pinned, app>>

Return_jitter_bps ==
    /\ Running("jitter_bps")
    /\ call' = [call EXCEPT !.ret =
                   jitter_bps(call.args.seed, call.args.obligor_id,
                              call.args.tenor_days, call.args.as_of)]
    /\ UNCHANGED <<env, backend, pinned, app>>

----------------------------------------------------------------------------
(* Scoring: score_risk applied to every feature mapping *)

InitScore ==
    /\ env = EnvUnset
    /\ backend = "coincurve"
    /\ call \in ScoreCalls(ScoreFeatures, ObligorIds, {365}, AsOfs)
    /\ pinned = NoCall
    /\ app = NotImported

NextScore == Return_score_risk

SpecScore == InitScore /\ [][NextScore]_vars

----------------------------------------------------------------------------
(* Pricing and jitter under every configuration of SEED and the override *)

InitPrice ==
    /\ env \in {[EnvUnset EXCEPT !["SEED"] = s, !["MODEL_JITTER_BPS_OVERRIDE"] = o] :
                  s \in Seeds \cup {None}, o \in Overrides}
    /\ backend = "coincurve"
    /\ call \in PriceCalls(ObligorIds, TenorDays, PriceFeatures, PdInputs,
                           LgdInputs, {1726000000})
                \cup JitterCalls(Seeds, ObligorIds, TenorDays, AsOfs)
                \cup RiskScoreCalls(PdInputs, LgdInputs)
    /\ pinned = NoCall
    /\ app = NotImported

NextPrice == Return_price_cds \/ Return_jitter_bps \/ Return_get_risk_score_bps

SpecPrice == InitPrice /\ [][NextPrice]_vars

----------------------------------------------------------------------------
(* Signing: load_or_create_key, sign_digest, recover, public_address *)

\* 64 hex digits of the key 5, as an operator may write them
KeyFiveHex == FormatHex(5, 64)

ConfiguredKeys == {None, <<"0", "x">> \o KeyFiveHex, KeyFiveHex}

KeySeeds == {None, <<>>, <<"4", "2">>, <<"7">>, <<"0">>, <<"-", "5">>}

Digests == {keccak(<<97, 98, 99>>), [i \in 1..32 |-> 17], [i \in 1..32 |-> 255]}

Return_load_or_create_key ==
    /\ Running("load_or_create_key")
    /\ call' = [call EXCEPT !.ret = load_or_create_key]
    /\ UNCHANGED <<env, backend, pinned, app>>

\* private_key = load_or_create_key(); sign_digest(digest_bytes, private_key)
Invoke_sign_digest ==
    /\ Done("load_or_create_key")
    /\ call.ret.ok
    /\ \E d \in Digests :
          call' = Invoke("sign_digest", [digest |-> d, private_key |-> call.ret.val])
    /\ UNCHANGED <<env, backend, pinned, app>>

Return_sign_digest ==
    /\ Running("sign_digest")
    /\ call' = [call EXCEPT !.ret = sign_digest(call.args.digest, call.args.private_key)]
    /\ UNCHANGED <<env, backend, pinned, app>>

\* recover(digest_bytes, signature) on the signature just obtained
Invoke_recover ==
    /\ Done("sign_digest")
    /\ call.ret.ok
    /\ pinned' = call
    /\ call' = Invoke("recover", [digest |-> call.args.digest, signature |-> call.ret.val])
    /\ UNCHANGED <<env, backend, app>>

Return_recover ==
    /\ Running("recover")
    /\ call' = [call EXCEPT !.ret = recover(call.args.digest, call.args.signature)]
    /\ UNCHANGED <<env, backend, pinned, app>>

\* expected_address = public_address(private_key)
Invoke_public_address ==
    /\ Done("load_or_create_key")
    /\ call.ret.ok
    /\ call' = Invoke("public_address", [private_key |-> call.ret.val])
    /\ UNCHANGED <<env, backend, pinned, app>>

Return_public_address ==
    /\ Running("public_address")
    /\ call' = [call EXCEPT !.ret = public_address(call.args.private_key)]
    /\ UNCHANGED <<env, backend, pinned, app>>

InitSign ==
    /\ env \in {[EnvUnset EXCEPT !["SEED"] = s, !["RISK_ORACLE_PRIVATE_KEY"] = k] :
                  s \in KeySeeds, k \in ConfiguredKeys}
    /\ backend \in {"coincurve", "native"}
    /\ call = Invoke("load_or_create_key", <<>>)
    /\ pinned = NoCall
    /\ app = NotImported

NextSign ==
    \/ Return_load_or_create_key
    \/ Invoke_sign_digest
    \/ Return_sign_digest
    \/ Invoke_recover
    \/ Return_recover
    \/ Invoke_public_address
    \/ Return_public_address

SpecSign == InitSign /\ [][NextSign]_vars

IsHexText(s) == \A i \in 1..Len(s) : HexVal(s[i]) >= 0

\* C1: for every digest and every key load_or_create_key returns (a configured
\* key string or a seed-derived one), sign_digest returns '0x' and 130 hex
\* characters and recover(digest, sign_digest(digest, key)) = public_address(key).
SignatureRoundTrip ==
    /\ Done("sign_digest") =>
          /\ call.ret.ok
          /\ Len(call.ret.val) = 132
          /\ SubSeq(call.ret.val, 1, 2) = <<"0", "x">>
          /\ IsHexText(DropTwo(call.ret.val))
    /\ Done("recover") /\ pinned.fn = "sign_digest" =>
          /\ call.ret.ok
          /\ call.ret = public_address(pinned.args.private_key)

----------------------------------------------------------------------------
(* Payload encoding: encode_payload *)

PortfolioIds == {[i \in 1..32 |-> 17], [i \in 1..32 |-> 34]}

PayloadTimes == {1700000000, 1726000000}

RiskScores == {119, 123456789}

BpsValues == {777, 1500}

PayloadHashes == {model_id_hash(<<"b", "a", "s", "e", "l", "i", "n", "e", "-", "v", "0">>), [i \in 1..32 |-> 34]}

PayloadArgs ==
    [portfolio_id : PortfolioIds, as_of : PayloadTimes, risk_score : RiskScores,
     correlation_bps : BpsValues, spread_bps : BpsValues,
     model_id_hash : PayloadHashes, features_hash : PayloadHashes]

GoldenPayload ==
    [portfolio_id |-> [i \in 1..32 |-> 17], as_of |-> 1700000000, risk_score |-> 123456789,
     correlation_bps |-> 777, spread_bps |-> 1500,
     model_id_hash |-> [i \in 1..32 |-> 34], features_hash |-> [i \in 1..32 |-> 34]]

\* values outside the field types: a short identifier, integers out of range
UntypedArgs ==
    {[GoldenPayload EXCEPT !.portfolio_id = <<17>>],
     [GoldenPayload EXCEPT !.portfolio_id = [i \in 1..33 |-> 17]],
     [GoldenPayload EXCEPT !.correlation_bps = 70000],
     [GoldenPayload EXCEPT !.as_of = -1]}

EncodeCalls == {Invoke("encode_payload", a) : a \in PayloadArgs \cup UntypedArgs}

\* the local variable encoded of a call (signing.py:41)
Encoded(a) ==
    abi_encode(a.portfolio_id, a.as_of, a.risk_score, a.correlation_bps,
               a.spread_bps, a.model_id_hash, a.features_hash)

Return_encode_payload ==
    /\ Running("encode_payload")
    /\ LET a == call.args
       IN  call' = [fn |-> call.fn, args |-> a, encoded |-> Encoded(a),
                    ret |-> encode_payload(a.portfolio_id, a.as_of, a.risk_score,
                                           a.correlation_bps, a.spread_bps,
                                           a.model_id_hash, a.features_hash)]
    /\ UNCHANGED <<env, backend, pinned, app>>

\* a second payload is encoded after the first
Invoke_encode_payload ==
    /\ Done("encode_payload")
    /\ pinned = NoCall
    /\ pinned' = call
    /\ call' \in EncodeCalls
    /\ UNCHANGED <<env, backend, app>>

InitEncode ==
    /\ env = EnvUnset
    /\ backend = "coincurve"
    /\ call \in EncodeCalls
    /\ pinned = NoCall
    /\ app = NotImported

NextEncode == Return_encode_payload \/ Invoke_encode_payload

SpecEncode == InitEncode /\ [][NextEncode]_vars

\* the fields have the types of RiskSignalLib.Payload
IsPayload(a) ==
    /\ Len(a.portfolio_id) = 32 /\ Len(a.model_id_hash) = 32 /\ Len(a.features_hash) = 32
    /\ a.as_of >= 0 /\ a.risk_score >= 0
    /\ a.correlation_bps \in 0..65535 /\ a.spread_bps \in 0..65535

Slot(bs, k) == SubSeq(bs, 32 * (k - 1) + 1, 32 * k)

\* the slot holds n big-endian
SlotHoldsInt(slot, n) ==
    /\ \A i \in 1..28 : slot[i] = 0
    /\ slot[29] * 16777216 + slot[30] * 65536 + slot[31] * 256 + slot[32] = n

BothEncoded ==
    /\ pinned.fn = "encode_payload" /\ Done("encode_payload")
    /\ IsPayload(pinned.args) /\ IsPayload(call.args)

\* C3: the seven fields are encoded in the order portfolioId, asOf, riskScore,
\* correlationBps, spreadBps, modelIdHash, featuresHash, one 32-byte big-endian
\* slot each (224 bytes); two payloads have the same encoded bytes only if all
\* seven fields are equal, and exchanging correlationBps with spreadBps, or
\* modelIdHash with featuresHash, changes the bytes when the two values differ.
EncodingFixedLayout ==
    /\ Done("encode_payload") /\ IsPayload(call.args) =>
          LET a == call.args
              e == call.encoded
          IN  /\ e.ok /\ call.ret.ok
              /\ Len(e.val) = 224
              /\ Slot(e.val, 1) = a.portfolio_id
              /\ SlotHoldsInt(Slot(e.val, 2), a.as_of)
              /\ SlotHoldsInt(Slot(e.val, 3), a.risk_score)
              /\ SlotHoldsInt(Slot(e.val, 4), a.correlation_bps)
              /\ SlotHoldsInt(Slot(e.val, 5), a.spread_bps)
              /\ Slot(e.val, 6) = a.model_id_hash
              /\ Slot(e.val, 7) = a.features_hash
              /\ call.ret.val = keccak(e.val)
    /\ BothEncoded =>
          LET a == pinned.args
              b == call.args
          IN  /\ pinned.encoded = call.encoded => a = b
              /\ a.correlation_bps # a.spread_bps
                 /\ b = [a EXCEPT !.correlation_bps = a.spread_bps,
                                  !.spread_bps = a.correlation_bps]
                 => pinned.encoded # call.encoded
              /\ a.model_id_hash # a.features_hash
                 /\ b = [a EXCEPT !.model_id_hash = a.features_hash,
                                  !.features_hash = a.model_id_hash]
                 => pinned.encoded # call.encoded

\* two payloads that differ by the exchange of correlationBps and spreadBps
\* have both been encoded
EncodedExchangedBps ==
    /\ BothEncoded
    /\ pinned.args.correlation_bps # pinned.args.spread_bps
    /\ call.args = [pinned.args EXCEPT !.correlation_bps = pinned.args.spread_bps,
                                       !.spread_bps = pinned.args.correlation_bps]
    /\ pinned.encoded.ok /\ call.encoded.ok

----------------------------------------------------------------------------
(* A process that makes one call after another *)

OverflowFeatures == [k \in {"size"} |-> FMaxT]

ProcFeatures == {GoldenFeatures, EmptyFeatures, OverflowFeatures}

ProcKeys == {<<"0", "x">> \o FormatHex(42, 64), <<"0", "x">> \o KeyFiveHex, KeyFiveHex}

FeaturesHashCalls(Features) ==
    {Invoke("canonical_features_hash", [features |-> FeatureDict(f)]) : f \in Features}

DigestCalls(Ids, Times, Features) ==
    {Invoke("digest", [portfolio_id |-> p, as_of |-> t, risk_score |-> 119,
                       correlation_bps |-> 1605, spread_bps |-> 72,
                       model_id |-> <<"b", "a", "s", "e", "l", "i", "n", "e", "-", "v", "0">>, features |-> f]) :
        p \in Ids, t \in Times, f \in Features}

SignCalls(Ds, Keys) ==
    {Invoke("sign_digest", [digest |-> d, private_key |-> k]) : d \in Ds, k \in Keys}

ProcCalls ==
    ScoreCalls(ProcFeatures, {<<"A", "C", "M", "E", "-", "L", "L", "C">>}, {365}, {1726000000})
    \cup PriceCalls({<<"A", "C", "M", "E", "-", "L", "L", "C">>}, {365}, {GoldenFeatures, OverflowFeatures}, {119}, {4501}, AsOfs)
    \cup FeaturesHashCalls({GoldenFeatures, EmptyFeatures})
    \cup DigestCalls({[i \in 1..32 |-> 17]}, PayloadTimes, {GoldenFeatures})
    \cup SignCalls({keccak(<<97, 98, 99>>), [i \in 1..32 |-> 17]}, ProcKeys)

ProcEnvs ==
    {[EnvUnset EXCEPT !["SEED"] = s, !["MODEL_JITTER_BPS_OVERRIDE"] = o] :
        s \in {None, <<"7">>}, o \in {None, <<"3">>, <<"a", "b", "c">>}}

Return_canonical_features_hash ==
    /\ Running("canonical_features_hash")
    /\ call' = [call EXCEPT !.ret = Ok(canonical_features_hash(call.args.features))]
    /\ UNCHANGED <<env, backend, pinned, app>>

Return_digest ==
    /\ Running("digest")
    /\ LET a == call.args
       IN  call' = [call EXCEPT !.ret = digest(a.portfolio_id, a.as_of, a.risk_score,
                                               a.correlation_bps, a.spread_bps,
                                               a.model_id, a.features)]
    /\ UNCHANGED <<env, backend, pinned, app>>

\* the caller goes on to its next call; the first completed call it remembers
Invoke_next ==
    /\ call.ret.err # "pending"
    /\ pinned' \in (IF pinned = NoCall THEN {pinned, call} ELSE {pinned})
    /\ call' \in ProcCalls
    /\ UNCHANGED <<env, backend, app>>

InitProc ==
    /\ env \in ProcEnvs
    /\ backend \in {"coincurve", "native"}
    /\ call \in ProcCalls
    /\ pinned = NoCall
    /\ app = NotImported

NextProc ==
    \/ Return_score_risk
    \/ Return_price_cds
    \/ Return_canonical_features_hash
    \/ Return_digest
    \/ Return_sign_digest
    \/ Invoke_next

SpecProc == InitProc /\ [][NextProc]_vars

SameCall == pinned.fn = call.fn /\ call.ret.err # "pending" /\ pinned.args = call.args

----------------------------------------------------------------------------
(* A process whose environment is changed between calls *)

ConfigValues ==
    [n \in EnvNames |->
        CASE n = "SEED" -> {None, <<"7">>}
          [] n = "MODEL_JITTER_BPS_OVERRIDE" -> {None, <<"3">>}
          [] n = "RISK_ORACLE_PRIVATE_KEY" -> {None, <<"0", "x">> \o KeyFiveHex}
          [] n = "RISK_API_ED25519_SK_HEX" -> {None}]

ConfigCalls ==
    PriceCalls({<<"A", "C", "M", "E", "-", "L", "L", "C">>}, {365}, {GoldenFeatures}, {119}, {4501}, {1726000000})
    \cup JitterCalls({<<"4", "2">>, <<>>}, {<<"A", "C", "M", "E", "-", "L", "L", "C">>}, {365}, {1726000000})
    \cup {Invoke("load_or_create_key", <<>>)}

\* the call c made while the environment is e
Under(c, e) == [fn |-> c.fn, args |-> c.args, ret |-> c.ret, env |-> e]

\* os.environ[name] = value, del os.environ[name]: between two calls
Setenv ==
    /\ call.ret.err # "pending"
    /\ \E n \in EnvNames : \E v \in ConfigValues[n] : env' = [env EXCEPT ![n] = v]
    /\ UNCHANGED <<backend, call, pinned, app>>

Invoke_configured ==
    /\ call.ret.err # "pending"
    /\ pinned' \in (IF pinned = NoCall THEN {pinned, call} ELSE {pinned})
    /\ \E c \in ConfigCalls : call' = Under(c, env)
    /\ UNCHANGED <<env, backend, app>>

InitConfig ==
    /\ env = EnvUnset
    /\ backend = "coincurve"
    /\ \E c \in ConfigCalls : call = Under(c, env)
    /\ pinned = NoCall
    /\ app = NotImported

NextConfig ==
    \/ Return_price_cds
    \/ Return_jitter_bps
    \/ Return_load_or_create_key
    \/ Setenv
    \/ Invoke_configured

SpecConfig == InitConfig /\ [][NextConfig]_vars

\* C5 as stated: the configuration is read once at process start, so a change
\* to SEED, MODEL_JITTER_BPS_OVERRIDE or the private-key variable made later
\* does not change the result of a later price_cds, jitter_bps or
\* load_or_create_key call with the same arguments.
ConfigReadOnce ==
    SameCall /\ call.fn \in {"price_cds", "jitter_bps", "load_or_create_key"} =>
        call.ret = pinned.ret

\* C5 amended: the configuration is read at every call. Two calls with the
\* same arguments return the same result when the three variables have the
\* same values at both calls, and a call made after a change uses the new
\* value: jitter_bps returns the override then set, load_or_create_key the key
\* then set, or the key of the seed then set.
ConfigReadAtEachCall ==
    /\ SameCall /\ pinned.env = call.env => call.ret = pinned.ret
    /\ Done("jitter_bps") /\ call.env["MODEL_JITTER_BPS_OVERRIDE"] # None =>
          call.ret = ParseInt(call.env["MODEL_JITTER_BPS_OVERRIDE"])
    /\ Done("load_or_create_key") /\ call.env["RISK_ORACLE_PRIVATE_KEY"] # None =>
          call.ret = Ok(call.env["RISK_ORACLE_PRIVATE_KEY"])
    /\ Done("load_or_create_key") /\ call.env["RISK_ORACLE_PRIVATE_KEY"] = None
       /\ call.env["SEED"] # None =>
          call.ret = Ok(<<"0", "x">> \o FormatHex(ParseInt(call.env["SEED"]).val, 64))

\* the override was set between two jitter_bps calls with the same arguments,
\* and the second call returned it
OverrideSetBetweenCalls ==
    /\ SameCall /\ call.fn = "jitter_bps"
    /\ pinned.env["MODEL_JITTER_BPS_OVERRIDE"] = None
    /\ call.env["MODEL_JITTER_BPS_OVERRIDE"] = <<"3">>
    /\ pinned.ret # call.ret
    /\ call.ret = Ok(3)

----------------------------------------------------------------------------
(* services/pricing/app.py: the HTTP service *)

\* the names baseline_model.py defines
BaselineModelExports ==
    {"get_seed", "round_half_up", "clamp", "jitter_bps", "score_risk", "price_cds",
     "get_risk_score_bps"}

\* from baseline_model import ... (app.py:7)
AppImports == {"score_risk", "price_cds", "generate_dummy_digest", "generate_dummy_signature"}

\* the module body of app.py up to the import of baseline_model
Import_app ==
    /\ ~app.imported /\ app.error = "none"
    /\ app' = IF AppImports \subseteq BaselineModelExports
              THEN [imported |-> TRUE, error |-> "none"]
              ELSE [imported |-> FALSE, error |-> "ImportError"]
    /\ UNCHANGED <<env, backend, call, pinned>>

\* POST /v1/price: without the module there is no handler; the handler's first
\* statement calls score_risk(req.features, req.obligorId), two of the four
\* required positional arguments
price(req) ==
    IF ~app.imported THEN Raise(app.error)
    ELSE Raise("TypeError")

PriceRequests ==
    [obligorId : ObligorIds, tenorDays : {30, 365}, asOf : AsOfs,
     notional : {0, 1000000}, modelId : {<<"b", "a", "s", "e", "l", "i", "n", "e", "-", "v", "0">>},
     features : {GoldenFeatures, EmptyFeatures, OverflowFeatures}]

Invoke_price ==
    /\ app # NotImported
    /\ call.ret.err # "pending"
    /\ \E req \in PriceRequests : call' = Invoke("price", req)
    /\ UNCHANGED <<env, backend, pinned, app>>

Return_price ==
    /\ Running("price")
    /\ call' = [call EXCEPT !.ret = price(call.args)]
    /\ UNCHANGED <<env, backend, pinned, app>>

InitApp ==
    /\ env \in {EnvUnset, [EnvUnset EXCEPT !["SEED"] = <<>>,
                                           !["MODEL_JITTER_BPS_OVERRIDE"] = <<"0">>]}
    /\ backend = "coincurve"
    /\ call = NoCall
    /\ pinned = NoCall
    /\ app = NotImported

NextApp == Import_app \/ Invoke_price \/ Return_price

SpecApp == InitApp /\ [][NextApp]_vars

\* C2: for every request the price endpoint runs score -> price -> encode ->
\* sign and attests to what it returns: the digest ('0x' + 64 hex) is the payload
\* digest of the request's identifier, asOf, riskScoreBps, correlationBps,
\* fairSpreadBps, model-id hash and canonical features hash, and the signature
\* ('0x' + 130 hex) is the oracle key's signature of exactly that digest.
PriceAttestsResult ==
    Done("price") =>
        LET req == call.args
            sc == score_risk(req.features, req.obligorId, req.tenorDays, req.asOf)
            pr == price_cds(req.obligorId, req.tenorDays, req.features,
                            sc.val.pdBps, sc.val.lgdBps, req.asOf)
            rs == get_risk_score_bps(sc.val.pdBps, sc.val.lgdBps)
            d == digest(to_bytes(req.obligorId), req.asOf, rs.val,
                        pr.val.correlationBps, pr.val.fairSpreadBps,
                        req.modelId, req.features)
            key == load_or_create_key
        IN  /\ call.ret.ok
            /\ call.ret.val.fairSpreadBps = pr.val.fairSpreadBps
            /\ call.ret.val.correlationBps = pr.val.correlationBps
            /\ call.ret.val.digest = <<"0", "x">> \o hex(d.val)
            /\ Len(call.ret.val.digest) = 66
            /\ call.ret.val.signature = sign_digest(d.val, key.val).val
            /\ Len(call.ret.val.signature) = 132

----------------------------------------------------------------------------
(* Properties of the pricing model *)

\* C6: jitter_bps returns an integer in [-5, 5] for every seed, obligorId,
\* tenorDays and asOf and for every configured value of the jitter override.
JitterWithinFiveBps ==
    Done("jitter_bps") => call.ret.ok /\ call.ret.val \in -5..5

\* the integer an override text of the configuration denotes
OverrideValue(o) ==
    CASE o = <<"0">> -> 0
      [] o = <<"3">> -> 3
      [] o = <<"-", "5">> -> -5
      [] o = <<"6">> -> 6

IntegerOverrides == {<<"0">>, <<"3">>, <<"-", "5">>, <<"6">>}

\* the hash rule of the jitter generator
JitterHashRule(seed, obligor_id, tenor_days, as_of) ==
    LET h == keccak(to_bytes(obligor_id \o <<":">> \o IntToStr(tenor_days)
                             \o <<":">> \o IntToStr(as_of) \o <<":">> \o seed))
        last_two == 256 * h[Len(h) - 1] + h[Len(h)]
    IN  (last_two % 11) - 5

\* C7: jitter_bps applies its rules in priority order: a configured override
\* (an integer text) is the result whatever the seed; otherwise the empty seed
\* gives 0; only otherwise the hash rule gives (last two bytes mod 11) - 5.
JitterPriorityOrder ==
    Done("jitter_bps") =>
        LET o == env["MODEL_JITTER_BPS_OVERRIDE"]
            a == call.args
        IN  /\ o \in IntegerOverrides => call.ret = Ok(OverrideValue(o))
            /\ o = None /\ a.seed = <<>> => call.ret = Ok(0)
            /\ o = None /\ a.seed # <<>> =>
                 call.ret = Ok(JitterHashRule(a.seed, a.obligor_id,
                                              a.tenor_days, a.as_of))

\* an override wins over the empty seed
JitterOverrideBeatsEmptySeed ==
    /\ Done("jitter_bps")
    /\ env["MODEL_JITTER_BPS_OVERRIDE"] = <<"3">>
    /\ call.args.seed = <<>>
    /\ call.ret = Ok(3)

\* C8: score_risk returns without error for every feature mapping, with pdBps
\* in [5, 3000], lgdBps in [2000, 9000] and scoreConfidence in [0.30, 0.95].
ScoreNeverRejects ==
    Done("score_risk") =>
        /\ call.ret.ok
        /\ call.ret.val.pdBps \in 5..3000
        /\ call.ret.val.lgdBps \in 2000..9000
        /\ call.ret.val.scoreConfidence \in 3000..9500

\* C9: price_cds returns without error for every input and every configured
\* seed and override, with fairSpreadBps in [25, 3000] and correlationBps in
\* [1000, 9000].
PriceNeverRejects ==
    Done("price_cds") =>
        /\ call.ret.ok
        /\ call.ret.val.fairSpreadBps \in 25..3000
        /\ call.ret.val.correlationBps \in 1000..9000

\* the reference formulas of the scoring model on exact reals; a feature is a
\* multiple of 0.1, read here in tenths
Tenths(features, key) == Get(features, key) \div 1000

RoundHalfUpTenths(x) == (x + 5) \div 10

RefPdBps(features) ==
    Min(3000, Max(5, RoundHalfUpTenths(
        50 * Tenths(features, "size") + 80 * Tenths(features, "leverage")
        + 40 * Tenths(features, "volatility") + 30 * Tenths(features, "fxExposure")
        + 20 * Tenths(features, "countryRisk"))))

RefLgdBps(features) ==
    Min(9000, Max(2000, RoundHalfUpTenths(
        45000 + 10 * Tenths(features, "industryStress")
        - 5 * Tenths(features, "collateralQuality"))))

RefConfidence(features) ==
    Min(9500, Max(3000, 5000 + 50 * Tenths(features, "dataQuality")
                             - 30 * Tenths(features, "modelShift")))

\* C10: score_risk equals the reference formulas on every input; a missing
\* key reads as 0.0, unknown keys are ignored, and obligorId, tenorDays and
\* asOf have no influence; the empty mapping gives 5, 4500, 0.50 and the
\* golden vector gives 119, 4501.
ScoreEqualsReference ==
    Done("score_risk") =>
        /\ call.ret.ok
        /\ call.ret.val.pdBps = RefPdBps(call.args.features)
        /\ call.ret.val.lgdBps = RefLgdBps(call.args.features)
        /\ call.ret.val.scoreConfidence = RefConfidence(call.args.features)
        /\ call.args.features = EmptyFeatures =>
             call.ret.val = [pdBps |-> 5, lgdBps |-> 4500, scoreConfidence |-> 5000]
        /\ call.args.features = GoldenFeatures =>
             call.ret.val.pdBps = 119 /\ call.ret.val.lgdBps = 4501

\* the reference formulas of the pricing model on exact reals, in ticks
RefElBps(pd_bps, lgd_bps) == pd_bps * lgd_bps

RefLiqBps(tenor_days, jitter) == 50000 + 200 * tenor_days + 10000 * jitter

\* r * r <= n * 10000, the square taken in two halves of four digits
SquareLeq(r, n) ==
    LET a == r \div 10000
        b == r % 10000
        q == a * a * 10000 + 2 * a * b + (b * b) \div 10000
    IN  q < n \/ (q = n /\ (b * b) % 10000 = 0)

RECURSIVE RefRoot(_, _, _)
\* the largest r in lo..hi with r * r <= n * 10000, SquareLeq(lo, n) given
RefRoot(lo, hi, n) ==
    IF lo = hi THEN lo
    ELSE LET mid == (lo + hi + 1) \div 2
         IN  IF SquareLeq(mid, n) THEN RefRoot(mid, hi, n) ELSE RefRoot(lo, mid - 1, n)

\* floor of 0.6 * sqrt(max(pd, 1)) in ticks: the square root of 3600 * p * 10^4
RefRpBps(pd_bps) == RefRoot(0, 3000000, 3600 * Max(pd_bps, 1))

\* floor(x + 0.5) for x = ticks / 10000
RoundHalfUpTicks(ticks) == (ticks + 5000) \div 10000

RefClamp(value, lo, hi) == Max(lo, Min(hi, value))

RefFairSpreadBps(pd_bps, lgd_bps, tenor_days, jitter) ==
    RefClamp(RoundHalfUpTicks(RefElBps(pd_bps, lgd_bps) + RefLiqBps(tenor_days, jitter)
                              + RefRpBps(pd_bps)), 25, 3000)

\* (15 + 2.5 * volatility + 1.5 * countryRisk) * 100 is 50000 * k ticks with
\* k = 300 + 5 * vol_tenths + 3 * cr_tenths; k is cut to 0..2000 before scaling,
\* outside of which the rounded value is clamped anyway
RefCorrelationBps(features) ==
    LET k == 300 + 5 * Tenths(features, "volatility") + 3 * Tenths(features, "countryRisk")
    IN  RefClamp(RoundHalfUpTicks(50000 * RefClamp(k, 0, 2000)), 1000, 9000)

RefRiskScoreBps(pd_bps, lgd_bps) == RoundHalfUpTicks(RefElBps(pd_bps, lgd_bps))

\* C11: price_cds and get_risk_score_bps equal the reference formulas on every
\* input: elBps = pdBps * lgdBps / 10000, liqBps = 5 + 0.02 * tenorDays +
\* jitter, rpBps = 0.6 * sqrt(max(pdBps, 1)), fairSpreadBps and correlationBps
\* the clamped roundings, riskScoreBps = roundHalfUp(elBps); the golden vector
\* gives 72, 1605 and 54.
PriceEqualsReference ==
    /\ Done("price_cds") =>
          LET a == call.args
              jitter == jitter_bps(get_seed, a.obligor_id, a.tenor_days, a.as_of)
          IN  /\ call.ret.ok
              /\ jitter.ok
              /\ call.ret.val.elBps = RefElBps(a.pd_bps, a.lgd_bps)
              /\ call.ret.val.liqBps = RefLiqBps(a.tenor_days, jitter.val)
              /\ call.ret.val.rpBps = RefRpBps(a.pd_bps)
              /\ call.ret.val.fairSpreadBps
                    = RefFairSpreadBps(a.pd_bps, a.lgd_bps, a.tenor_days, jitter.val)
              /\ call.ret.val.correlationBps = RefCorrelationBps(a.features)
              /\ (a.pd_bps = 119 /\ a.lgd_bps = 4501 /\ a.tenor_days = 365
                   /\ jitter.val = 0 /\ a.features = GoldenFeatures) =>
                     (call.ret.val.fairSpreadBps = 72 /\ call.ret.val.correlationBps = 1605)
    /\ Done("get_risk_score_bps") =>
          /\ call.ret.ok
          /\ call.ret.val = RefRiskScoreBps(call.args.pd_bps, call.args.lgd_bps)
          /\ (call.args.pd_bps = 119 /\ call.args.lgd_bps = 4501) => call.ret.val = 54

----------------------------------------------------------------------------
(* round_half_up on its own *)

\* floats handed to round_half_up: every quarter from -1.0 to 11.0, the
\* neighbours of the first ties, the whole numbers around FloatExact and
\* FloatMax, and the non-finite values
RoundInputs ==
    {k * 2500 : k \in -4..44}
    \cup {1, 4999, 5001, 14999, 15001, -4999, -5001}
    \cup {FExactT - 5000, FExactT, FExactT + 10000, FExactT + 20000, FExactT + 30000}
    \cup {FMaxT - 10000, FMaxT, PosInf, NegInf, NaN}

RoundCalls == {Invoke("round_half_up", [value |-> x]) : x \in RoundInputs}

Return_round_half_up ==
    /\ Running("round_half_up")
    /\ call' = [call EXCEPT !.ret = round_half_up(call.args.value)]
    /\ UNCHANGED <<env, backend, pinned, app>>

InitRound ==
    /\ env = EnvUnset
    /\ backend = "coincurve"
    /\ call \in RoundCalls
    /\ pinned = NoCall
    /\ app = NotImported

NextRound == Return_round_half_up

SpecRound == InitRound /\ [][NextRound]_vars

\* C12: round_half_up(x) equals floor(x + 0.5) for every x >= 0, so every tie
\* rounds up to the next integer, and round_half_up(-0.5) is 0.
RoundHalfUpIsFloor ==
    Done("round_half_up") =>
        LET x == call.args.value
        IN  /\ (IsFinite(x) /\ x >= 0) =>
                  (call.ret.ok /\ call.ret.val = (x + 5000) \div 10000)
            /\ x = -5000 => (call.ret.ok /\ call.ret.val = 0)

----------------------------------------------------------------------------
(* Canonical serialisation of mappings *)

Perms(n) == {p \in [1..n -> 1..n] : \A i, j \in 1..n : p[i] = p[j] => i = j}

\* one member of each of the sets S[1], ..., S[n]
Choices(S) == {f \in [DOMAIN S -> UNION {S[i] : i \in DOMAIN S}] : \A i \in DOMAIN S : f[i] \in S[i]}

RECURSIVE Reorderings(_)
\* the same value built with its dicts, at every depth, filled in any order
Reorderings(v) ==
    IF isinstance(v, "list")
    THEN {PyList(f) : f \in Choices([i \in 1..Len(v[2]) |-> Reorderings(v[2][i])])}
    ELSE IF isinstance(v, "dict")
    THEN {PyDict([i \in 1..Len(v[2]) |-> <<v[2][p[i]][1], f[p[i]]>>]) :
            p \in Perms(Len(v[2])),
            f \in Choices([i \in 1..Len(v[2]) |-> Reorderings(v[2][i][2])])}
    ELSE {v}

\* {"b": 2, "a": [3, {"z": 1, "y": 2}]}, after test_canonical_features_hash_is_stable
NestedInList ==
    PyDict(<< <<<<"b">>, PyInt(2)>>,
              <<<<"a">>, PyList(<<PyInt(3), PyDict(<< <<<<"z">>, PyInt(1)>>, <<<<"y">>, PyInt(2)>> >>)>>)>> >>)

\* {"a": [3, {"y": 2, "z": 1}], "b": 2}
NestedInListReordered ==
    PyDict(<< <<<<"a">>, PyList(<<PyInt(3), PyDict(<< <<<<"y">>, PyInt(2)>>, <<<<"z">>, PyInt(1)>> >>)>>)>>,
              <<<<"b">>, PyInt(2)>> >>)

\* {"a": 1, "b": 2} of test_canonical_features_hash, and the same with 1.0
IntFeatures == PyDict(<< <<<<"a">>, PyInt(1)>>, <<<<"b">>, PyInt(2)>> >>)

FloatFeatures == PyDict(<< <<<<"a">>, PyFloat(10000)>>, <<<<"b">>, PyInt(2)>> >>)

\* {"m": {"k": 1.5, "j": "x"}, "n": -1.9, "ab": true}
NestedInDict ==
    PyDict(<< <<<<"m">>, PyDict(<< <<<<"k">>, PyFloat(15000)>>, <<<<"j">>, PyStr(<<"x">>)>> >>)>>,
              <<<<"n">>, PyFloat(-19000)>>,
              <<<<"a", "b">>, PyBool(TRUE)>> >>)

\* {"t": nan, "s": inf}
NonFinite == PyDict(<< <<<<"t">>, PyFloat(NaN)>>, <<<<"s">>, PyFloat(PosInf)>> >>)

CanonBase == {NestedInList, IntFeatures, FloatFeatures, NestedInDict, NonFinite, PyDict(<<>>)}

CanonObjects == UNION {Reorderings(b) : b \in CanonBase}

CanonCalls ==
    {Invoke("canonical_features_hash", [features |-> o]) : o \in CanonObjects}
    \cup {Invoke("canonical_json", [obj |-> o]) : o \in CanonObjects}

\* the mapping a call serialises
Mapping(c) == IF c.fn = "canonical_features_hash" THEN c.args.features ELSE c.args.obj

Return_canonical_json ==
    /\ Running("canonical_json")
    /\ call' = [call EXCEPT !.ret = canonical_json(call.args.obj)]
    /\ UNCHANGED <<env, backend, pinned, app>>

\* the finished call is kept and the same function is called on another mapping
Invoke_again ==
    /\ call.ret.err # "pending"
    /\ pinned.fn = "none"
    /\ pinned' = call
    /\ call' \in {c \in CanonCalls : c.fn = call.fn}
    /\ UNCHANGED <<env, backend, app>>

InitCanon ==
    /\ env = EnvUnset
    /\ backend = "coincurve"
    /\ call \in CanonCalls
    /\ pinned = NoCall
    /\ app = NotImported

NextCanon == Return_canonical_features_hash \/ Return_canonical_json \/ Invoke_again

SpecCanon == InitCanon /\ [][NextCanon]_vars

RECURSIVE SameMapping(_, _)
\* equal values, a dict being its keys and their values whatever their order
SameMapping(a, b) ==
    IF a[1] # b[1] THEN FALSE
    ELSE IF isinstance(a, "dict")
    THEN /\ Len(a[2]) = Len(b[2])
         /\ \A i \in 1..Len(a[2]) : \E j \in 1..Len(b[2]) :
               a[2][i][1] = b[2][j][1] /\ SameMapping(a[2][i][2], b[2][j][2])
    ELSE IF isinstance(a, "list")
    THEN /\ Len(a[2]) = Len(b[2])
         /\ \A i \in 1..Len(a[2]) : SameMapping(a[2][i], b[2][i])
    ELSE a[2] = b[2]

BothCanonical ==
    /\ pinned.fn = call.fn
    /\ call.fn \in {"canonical_features_hash", "canonical_json"}
    /\ call.ret.err # "pending"

SameOutcome ==
    /\ call.ret.err = pinned.ret.err
    /\ call.ret.ok => call.ret.val = pinned.ret.val

\* C13: two mappings holding the same keys and values inserted in different
\* orders, at any depth of nesting in lists and mappings, get the same hash
\* from canonical_features_hash and the same bytes from canonical_json.
CanonicalOrderIndependent ==
    (BothCanonical /\ SameMapping(Mapping(pinned), Mapping(call))) => SameOutcome

\* the mapping of the stability test and a reordering of its outer and nested
\* dicts have both been serialised
NestedReorderingSerialised ==
    /\ BothCanonical
    /\ call.ret.ok
    /\ Mapping(pinned) = NestedInList
    /\ Mapping(call) = NestedInListReordered

\* the number a Python int or float holds, in ticks
NumberTicks(v) == IF isinstance(v, "int") THEN v[2] * 10000 ELSE v[2]

IsNumber(v) == isinstance(v, "int") \/ isinstance(v, "float")

RECURSIVE SameNumbers(_, _)
\* equal values up to the order of dict items and up to the representation,
\* int or float, of equal numbers
SameNumbers(a, b) ==
    IF IsNumber(a) /\ IsNumber(b) THEN NumberTicks(a) = NumberTicks(b)
    ELSE IF a[1] # b[1] THEN FALSE
    ELSE IF isinstance(a, "dict")
    THEN /\ Len(a[2]) = Len(b[2])
         /\ \A i \in 1..Len(a[2]) : \E j \in 1..Len(b[2]) :
               a[2][i][1] = b[2][j][1] /\ SameNumbers(a[2][i][2], b[2][j][2])
    ELSE IF isinstance(a, "list")
    THEN /\ Len(a[2]) = Len(b[2])
         /\ \A i \in 1..Len(a[2]) : SameNumbers(a[2][i], b[2][i])
    ELSE a[2] = b[2]

\* C14: the canonical bytes of a feature mapping, and so its features hash, are
\* the same whether a number is passed as an int or as a float (1 and 1.0).
FeaturesHashIgnoresNumberType ==
    (BothCanonical /\ call.fn = "canonical_features_hash"
     /\ SameNumbers(pinned.args.features, call.args.features)) => SameOutcome

----------------------------------------------------------------------------
(* nacl.signing: Ed25519 over the subgroup of order 23099 generated by 4 in
   the integers modulo 46199 *)

EdP == 46199

EdL == 23099

EdB == 4

\* b^e % m
RECURSIVE ExpMod(_, _, _)
ExpMod(b, e, m) ==
    IF e = 0 THEN 1 % m
    ELSE LET h == ExpMod(b, e \div 2, m)
         IN  IF e % 2 = 0 THEN (h * h) % m ELSE (((h * h) % m) * b) % m

\* SHA-512 of bs read as an integer
Sha512Int(bs) == Absorb(bs, 27183)

\* a group element or a scalar as 32 bytes, little-endian
EdEncode(n) == [i \in 1..32 |-> IF i = 1 THEN n % 256 ELSE IF i = 2 THEN n \div 256 ELSE 0]

\* the integer 32 little-endian bytes hold, 65536 when it is larger than that
EdDecode(bs) ==
    IF \E i \in 3..Len(bs) : bs[i] # 0 THEN 65536 ELSE bs[1] + 256 * bs[2]

\* the secret scalar and the nonce prefix of a 32-byte seed
EdScalar(seed) == 1 + (Sha512Int(seed) % (EdL - 1))

EdPrefix(seed) == <<Sha512Int(seed) \div 256, Sha512Int(seed) % 256>>

\* crypto_sign_seed_keypair: the public key bytes
EdPublic(seed) == EdEncode(ExpMod(EdB, EdScalar(seed), EdP))

\* a signature that leaves the nonce out of S
crypto_sign_without_nonce(seed, message) ==
    LET r == Sha512Int(EdPrefix(seed) \o message) % EdL
        R == EdEncode(ExpMod(EdB, r, EdP))
        h == Sha512Int(R \o EdPublic(seed) \o message) % EdL
    IN  R \o EdEncode((h * EdScalar(seed)) % EdL)

\* crypto_sign: the 64 bytes R || S of the detached signature
crypto_sign(seed, message) ==
    LET r == Sha512Int(EdPrefix(seed) \o message) % EdL
        R == EdEncode(ExpMod(EdB, r, EdP))
        h == Sha512Int(R \o EdPublic(seed) \o message) % EdL
    IN  R \o EdEncode((r + h * EdScalar(seed)) % EdL)

\* crypto_sign_open on a 64-byte signature and a 32-byte key: S is canonical,
\* A is an element of the group other than the identity, and B^S = R * A^h
crypto_sign_open(public_key, message, signature) ==
    LET R == SubSeq(signature, 1, 32)
        S == EdDecode(SubSeq(signature, 33, 64))
        A == EdDecode(public_key)
        h == Sha512Int(R \o public_key \o message) % EdL
    IN  /\ S < EdL
        /\ A > 1 /\ A < EdP /\ ExpMod(A, EdL, EdP) = 1
        /\ EdDecode(R) > 1
        /\ EdEncode((ExpMod(EdB, S, EdP) * ExpMod(A, EdL - h, EdP)) % EdP) = R

----------------------------------------------------------------------------
(* risk_api/signing.py and risk_api/verify_signature.py *)

\* SigningKey(secret_key_hex): the object holds the 32 seed bytes
\* a constructor that takes any even number of hex digits
SigningKey_any_length(secret_key_hex) == fromhex(secret_key_hex)

\* SigningKey.__init__: the 32 secret bytes stand for the key object
SigningKey(secret_key_hex) ==
    LET secret_key_bytes == fromhex(secret_key_hex)
    IN  IF Len(secret_key_hex) # 64 THEN Raise("ValueError")
        ELSE IF ~secret_key_bytes.ok THEN Raise("ValueError")
        ELSE IF Len(secret_key_bytes.val) # 32 THEN Raise("ValueError")
        ELSE Ok(secret_key_bytes.val)

public_key_hex(self) == hex(EdPublic(self))

sign(self, data) ==
    LET canonical_bytes == canonical_json(data)
    IN  IF ~canonical_bytes.ok THEN canonical_bytes
        ELSE Ok(hex(crypto_sign(self, canonical_bytes.val)))

\* VerifyKey.verify(smessage, signature): TRUE, or FALSE where it raises
VerifyKey_verify(key, smessage, signature) ==
    Len(signature) = 64 /\ crypto_sign_open(key, smessage, signature)

\* a verifier that accepts whatever decodes as hex
verify_hex_only(self, data, signature_hex) == fromhex(signature_hex).ok

verify(self, data, signature_hex) ==
    LET signature_bytes == fromhex(signature_hex)
        canonical_bytes == canonical_json(data)
    IN  IF ~signature_bytes.ok THEN FALSE
        ELSE IF ~canonical_bytes.ok THEN FALSE
        ELSE VerifyKey_verify(EdPublic(self), canonical_bytes.val, signature_bytes.val)

verify_signature(data, signature_hex, public_key) ==
    LET key_bytes == fromhex(public_key)
        items == sorted_items(data[2])
        as_int == [i \in 1..Len(items) |->
                     IF isinstance(items[i][2], "float") THEN FloatToInt(items[i][2][2])
                     ELSE Ok(0)]
        canonical_obj == PyDict([i \in 1..Len(items) |->
                            IF isinstance(items[i][2], "float")
                            THEN <<items[i][1], PyInt(as_int[i].val)>>
                            ELSE items[i]])
        signature_bytes == fromhex(signature_hex)
    IN  IF ~key_bytes.ok \/ Len(key_bytes.val) # 32 THEN FALSE
        ELSE IF \E i \in 1..Len(items) : ~as_int[i].ok THEN FALSE
        ELSE IF ~signature_bytes.ok THEN FALSE
        ELSE VerifyKey_verify(key_bytes.val, to_bytes(dumps(canonical_obj)), signature_bytes.val)

----------------------------------------------------------------------------
(* Signed snapshots *)

\* the key of conftest.py, 000102...1f, and a second one
TestSecret == hex([i \in 1..32 |-> i - 1])

OtherSecret == hex([i \in 1..32 |-> 255 - i])

SecretKeys == {SigningKey(TestSecret).val, SigningKey(OtherSecret).val}

\* {"nav_ray": 100, "model_hash": "ab", "ts": ts}
Snapshot(ts) ==
    PyDict(<< <<<<"n", "a", "v", "_", "r", "a", "y">>, PyInt(100)>>,
              <<<<"m", "o", "d", "e", "l", "_", "h", "a", "s", "h">>, PyStr(<<"a", "b">>)>>,
              <<<<"t", "s">>, ts>> >>)

\* timestamps: 1, 1.0, 1.9, 1.2, -1, -1.9, -1.2, 0, 0.5, -0.5, 2
Timestamps ==
    {PyInt(1), PyFloat(10000), PyFloat(19000), PyFloat(12000), PyInt(-1), PyFloat(-19000),
     PyFloat(-12000), PyInt(0), PyFloat(5000), PyFloat(-5000), PyInt(2)}

\* data with items[i] replaced by item
WithItem(data, i, item) == PyDict([data[2] EXCEPT ![i] = item])

\* the snapshot with ts = 1 after one change: another integer, another string,
\* a string for an integer, a field removed, a field added, the fields reversed
ChangedSnapshots ==
    LET d == Snapshot(PyInt(1))
    IN  {WithItem(d, 1, <<d[2][1][1], PyInt(101)>>),
         WithItem(d, 2, <<d[2][2][1], PyStr(<<"a", "c">>)>>),
         WithItem(d, 3, <<d[2][3][1], PyStr(<<"1">>)>>),
         PyDict(SubSeq(d[2], 1, 2)),
         PyDict(d[2] \o << <<<<"x">>, PyInt(0)>> >>),
         PyDict(<<d[2][3], d[2][2], d[2][1]>>)}

Snapshots == {Snapshot(ts) : ts \in Timestamps} \cup ChangedSnapshots

\* data handed to a verifier: also a snapshot that cannot be serialised
VerifiedData == Snapshots \cup {Snapshot(PyFloat(NaN))}

\* s with its i-th character replaced by c
WithChar(s, i, c) == [s EXCEPT ![i] = c]

Upper(s) ==
    [i \in 1..Len(s) |-> IF HexVal(s[i]) >= 10 THEN UpperHexChars[HexVal(s[i]) + 1] ELSE s[i]]

\* what a verifier may be handed for a signature sig of 128 hex characters: sig,
\* sig in upper case, sig with R or S altered, with a character that is not
\* hex, of odd length, one byte short, one byte long, and the empty string
SignatureTexts(sig) ==
    {sig, Upper(sig),
     WithChar(sig, 1, IF sig[1] = "0" THEN "1" ELSE "0"),
     WithChar(sig, 66, IF sig[66] = "0" THEN "1" ELSE "0"),
     WithChar(sig, 128, "1"),
     WithChar(sig, 5, "g"),
     SubSeq(sig, 1, 127), SubSeq(sig, 1, 126), sig \o <<"0", "0">>, <<>>}

\* public keys handed to verify_signature: the two real ones, one that is not
\* hex, one of 31 bytes, the identity, and an integer outside the group
PublicKeyTexts ==
    {public_key_hex(k) : k \in SecretKeys}
    \cup {<<"x", "y">>, hex([i \in 1..31 |-> 0]), hex(EdEncode(1)), hex(EdEncode(3))}

SigningCalls ==
    {Invoke("sign", [self |-> k, data |-> d]) : k \in SecretKeys, d \in Snapshots}
    \cup {Invoke("canonical_json", [obj |-> d]) : d \in Snapshots}

Return_sign ==
    /\ Running("sign")
    /\ call' = [call EXCEPT !.ret = sign(call.args.self, call.args.data)]
    /\ UNCHANGED <<env, backend, pinned, app>>

Return_verify ==
    /\ Running("verify")
    /\ call' = [call EXCEPT !.ret =
                   Ok(verify(call.args.self, call.args.data, call.args.signature_hex))]
    /\ UNCHANGED <<env, backend, pinned, app>>

Return_verify_signature ==
    /\ Running("verify_signature")
    /\ call' = [call EXCEPT !.ret =
                   Ok(verify_signature(call.args.data, call.args.signature_hex,
                                       call.args.public_key))]
    /\ UNCHANGED <<env, backend, pinned, app>>

\* the signed snapshot is kept and another snapshot is signed or serialised
Invoke_on_other_snapshot ==
    /\ call.ret.err # "pending"
    /\ pinned.fn = "none"
    /\ call.fn \in {"sign", "canonical_json"}
    /\ pinned' = call
    /\ call' \in {c \in SigningCalls : c.fn = call.fn}
    /\ UNCHANGED <<env, backend, app>>

\* the signature just made, or a text derived from it, goes to SigningKey.verify
Invoke_verify ==
    /\ Done("sign") /\ call.ret.ok
    /\ pinned.fn = "none"
    /\ pinned' = call
    /\ call' \in {Invoke("verify", [self |-> k, data |-> d, signature_hex |-> t]) :
                    k \in SecretKeys, d \in VerifiedData, t \in SignatureTexts(call.ret.val)}
    /\ UNCHANGED <<env, backend, app>>

\* the same, to the standalone verifier with a public key text
Invoke_verify_signature ==
    /\ Done("sign") /\ call.ret.ok
    /\ pinned.fn = "none"
    /\ pinned' = call
    /\ call' \in {Invoke("verify_signature",
                           [data |-> d, signature_hex |-> t, public_key |-> pk]) :
                    d \in VerifiedData, t \in SignatureTexts(call.ret.val),
                    pk \in PublicKeyTexts}
    /\ UNCHANGED <<env, backend, app>>

InitSnap ==
    /\ env = EnvUnset
    /\ backend = "coincurve"
    /\ call \in SigningCalls
    /\ pinned = NoCall
    /\ app = NotImported

NextSnap ==
    \/ Return_sign
    \/ Return_canonical_json
    \/ Return_verify
    \/ Return_verify_signature
    \/ Invoke_on_other_snapshot
    \/ Invoke_verify
    \/ Invoke_verify_signature

SpecSnap == InitSnap /\ [][NextSnap]_vars

\* the data a call signs, verifies or serialises
Data(c) == IF c.fn = "canonical_json" THEN c.args.obj ELSE c.args.data

\* the integer part of x ticks, toward zero
IntegerPart(x) == IF x >= 0 THEN x \div 10000 ELSE -((-x) \div 10000)

\* the canonical text of a field value: an int in decimal, a str in quotes, a
\* float as its integer part
RefValueText(v) ==
    IF isinstance(v, "int") THEN IntToStr(v[2])
    ELSE IF isinstance(v, "float") THEN IntToStr(IntegerPart(v[2]))
    ELSE <<"\"">> \o v[2] \o <<"\"">>

RECURSIVE RefItemsText(_)
\* "key":value of the items, the least key first, joined with ','
RefItemsText(items) ==
    IF items = {} THEN <<>>
    ELSE LET least == CHOOSE i \in items : \A j \in items \ {i} : StrLess(i[1], j[1])
         IN  <<"\"">> \o least[1] \o <<"\"", ":">> \o RefValueText(least[2])
             \o (IF items = {least} THEN <<>> ELSE <<",">> \o RefItemsText(items \ {least}))

RefCanonicalText(obj) ==
    <<"{">> \o RefItemsText({obj[2][i] : i \in 1..Len(obj[2])}) \o <<"}">>

\* the same fields in the same order, equal but for the fractional part of
\* the floats
DifferOnlyInFraction(d1, d2) ==
    /\ Len(d1[2]) = Len(d2[2])
    /\ \A i \in 1..Len(d1[2]) :
          /\ d1[2][i][1] = d2[2][i][1]
          /\ \/ d1[2][i][2] = d2[2][i][2]
             \/ /\ isinstance(d1[2][i][2], "float") /\ isinstance(d2[2][i][2], "float")
                /\ IntegerPart(d1[2][i][2][2]) = IntegerPart(d2[2][i][2][2])

BothOnSnapshots ==
    /\ pinned.fn = call.fn
    /\ call.fn \in {"canonical_json", "sign"}
    /\ call.ret.err # "pending"
    /\ call.fn = "sign" => pinned.args.self = call.args.self

\* C15: canonical_json replaces every float field of the snapshot by its
\* integer part, truncated toward zero and never rounded, and leaves integers
\* and strings unchanged; two snapshots that differ only in the fractional
\* part of a float field have the same canonical bytes and the same signature.
CanonicalJsonTruncates ==
    /\ Done("canonical_json") =>
          (call.ret.ok /\ call.ret.val = to_bytes(RefCanonicalText(call.args.obj)))
    /\ (BothOnSnapshots /\ DifferOnlyInFraction(Data(pinned), Data(call))) =>
          (call.ret.ok /\ call.ret.val = pinned.ret.val)

\* the snapshots with ts = 1.9 and ts = 1.2 have been signed with one key
FractionsSignedAlike ==
    /\ BothOnSnapshots
    /\ call.fn = "sign"
    /\ Data(pinned) = Snapshot(PyFloat(19000))
    /\ Data(call) = Snapshot(PyFloat(12000))

\* the call verifies the signature of the signed snapshot with the signing key
VerifiesOwnSignature ==
    /\ pinned.fn = "sign"
    /\ call.fn \in {"verify", "verify_signature"}
    /\ call.ret.err # "pending"
    /\ call.args.data = pinned.args.data
    /\ call.args.signature_hex = pinned.ret.val
    /\ \/ call.fn = "verify" /\ call.args.self = pinned.args.self
       \/ call.fn = "verify_signature"
          /\ call.args.public_key = public_key_hex(pinned.args.self)

\* C16: for every snapshot d and valid key k, k.sign(d) is a string of 128 hex
\* characters, k.verify(d, k.sign(d)) is true and verify_signature(d, k.sign(d),
\* k.public_key_hex()) is true.
SignVerifyRoundTrip ==
    /\ Done("sign") => (call.ret.ok /\ Len(call.ret.val) = 128 /\ IsHexText(call.ret.val))
    /\ VerifiesOwnSignature => call.ret.val

\* the standalone verifier has checked a snapshot against its own signature
StandaloneRoundTripDone == VerifiesOwnSignature /\ call.fn = "verify_signature"

\* the call checks, with the signing key, the signature made for pinned's data
ChecksSignatureOfPinned ==
    /\ pinned.fn = "sign"
    /\ call.fn \in {"verify", "verify_signature"}
    /\ call.ret.err # "pending"
    /\ call.args.signature_hex = pinned.ret.val
    /\ \/ call.fn = "verify" /\ call.args.self = pinned.args.self
       \/ call.fn = "verify_signature"
          /\ call.args.public_key = public_key_hex(pinned.args.self)

FieldNames(d) == {d[2][i][1] : i \in 1..Len(d[2])}

Field(d, name) == d[2][CHOOSE i \in 1..Len(d[2]) : d[2][i][1] = name][2]

\* v == w in Python, for ints, floats and strs
EqualValues(v, w) ==
    IF IsNumber(v) /\ IsNumber(w) THEN NumberTicks(v) = NumberTicks(w)
    ELSE IF IsNumber(v) \/ IsNumber(w) THEN FALSE
    ELSE v = w

\* the value with a float cut to its integer part
Truncated(v) == IF isinstance(v, "float") THEN PyInt(IntegerPart(v[2])) ELSE v

\* The statement of C17 as written: if verify(d2, sign(d1)) is true under the
\* same key then d1 and d2 have the same field names and the same value for
\* every integer and string field, so that changing, adding or removing such a
\* field after signing makes verify return false.
SignatureCoversFields ==
    (ChecksSignatureOfPinned /\ call.ret.val) =>
        /\ FieldNames(pinned.args.data) = FieldNames(call.args.data)
        /\ \A n \in FieldNames(pinned.args.data) :
              LET v == Field(pinned.args.data, n)
                  w == Field(call.args.data, n)
              IN  (~isinstance(v, "float") \/ ~isinstance(w, "float")) => EqualValues(v, w)

\* C17: a signature covers the whole snapshot up to the fractional part of its
\* numbers: verify(d2, sign(d1)) is true under the same key exactly when d1 and
\* d2 have the same field names and every field has the same string, or the
\* same integer once a float is truncated toward zero.
SignatureCoversCanonicalFields ==
    ChecksSignatureOfPinned =>
        (call.ret.val <=>
            /\ FieldNames(pinned.args.data) = FieldNames(call.args.data)
            /\ \A n \in FieldNames(pinned.args.data) :
                  Truncated(Field(pinned.args.data, n)) = Truncated(Field(call.args.data, n)))

\* a snapshot whose integer field was changed after signing has been rejected
ChangedFieldRejected ==
    /\ ChecksSignatureOfPinned
    /\ pinned.args.data = Snapshot(PyInt(1))
    /\ Field(call.args.data, <<"n", "a", "v", "_", "r", "a", "y">>) = PyInt(101)
    /\ ~call.ret.val

\* the signature text decodes to the signature that the secret key seed makes
\* for the canonical bytes of the data
SignatureOf(seed, data, signature_hex) ==
    /\ canonical_json(data).ok
    /\ fromhex(signature_hex).ok
    /\ fromhex(signature_hex).val = crypto_sign(seed, canonical_json(data).val)

\* C18: for any data, signature text and public-key text, SigningKey.verify and
\* verify_signature return a boolean without raising, true only when the
\* signature is valid for the canonical bytes of the data.
VerifyReturnsBoolean ==
    /\ Done("verify") =>
          /\ call.ret.ok /\ call.ret.val \in BOOLEAN
          /\ call.ret.val =>
                SignatureOf(call.args.self, call.args.data, call.args.signature_hex)
    /\ Done("verify_signature") =>
          /\ call.ret.ok /\ call.ret.val \in BOOLEAN
          /\ call.ret.val =>
                \E k \in SecretKeys :
                    /\ fromhex(call.args.public_key).val = EdPublic(k)
                    /\ SignatureOf(k, call.args.data, call.args.signature_hex)

\* the standalone verifier has turned down a signature text of odd length for
\* data that cannot be serialised
MalformedInputRejected ==
    /\ Done("verify_signature")
    /\ Len(call.args.signature_hex) = 127
    /\ call.args.data = Snapshot(PyFloat(NaN))
    /\ ~call.ret.val

----------------------------------------------------------------------------
(* risk_api/deps.py: the cached signing key *)

get_signing_key ==
    LET secret_key_hex == getenv("RISK_API_ED25519_SK_HEX", None)
    IN  IF secret_key_hex = None \/ secret_key_hex = <<>> THEN Raise("ValueError")
        ELSE SigningKey(secret_key_hex)

\* a wrapper that calls the function every time
lru_cache_disabled(cached, computed) == computed

\* functools.lru_cache on a function without arguments: the value a call
\* returned is kept and returned from then on; an exception is not kept
lru_cache(cached, computed) == IF cached.fn # "none" THEN cached.ret ELSE computed

\* signing.create_signing_key(): the same load without a cache
create_signing_key ==
    LET secret_key_hex == getenv("RISK_API_ED25519_SK_HEX", None)
    IN  IF secret_key_hex = None \/ secret_key_hex = <<>> THEN Raise("ValueError")
        ELSE SigningKey(secret_key_hex)

\* a key text with a blank after every second byte, cut to 64 characters
SpacedSecret == [i \in 1..64 |-> IF i % 5 = 0 THEN " " ELSE TestSecret[i - (i \div 5)]]

\* values of RISK_API_ED25519_SK_HEX: unset, empty, two keys, a key in upper
\* case, 63 and 62 characters, 64 characters that are not all hex, and 64
\* characters with blanks between the bytes
SecretTexts ==
    {None, <<>>, TestSecret, OtherSecret, Upper(OtherSecret), SubSeq(TestSecret, 1, 63),
     SubSeq(TestSecret, 1, 62), WithChar(TestSecret, 64, "g"), SpacedSecret}

SignedData == {Snapshot(ts) : ts \in {PyInt(1), PyFloat(19000), PyInt(2)}} \cup ChangedSnapshots

\* os.environ['RISK_API_ED25519_SK_HEX'] is set or deleted
Setenv_secret ==
    /\ \E v \in SecretTexts : env' = [env EXCEPT !["RISK_API_ED25519_SK_HEX"] = v]
    /\ UNCHANGED <<backend, call, pinned, app>>

\* get_signing_key() through its cache; pinned is the cache entry
Call_get_signing_key ==
    /\ call' = [fn |-> "get_signing_key",
                args |-> [environ |-> env["RISK_API_ED25519_SK_HEX"]],
                ret |-> lru_cache(pinned, get_signing_key)]
    /\ pinned' = IF pinned.fn = "none" /\ call'.ret.ok THEN call' ELSE pinned
    /\ UNCHANGED <<env, backend, app>>

\* create_signing_key()
Call_create_signing_key ==
    /\ call' = [fn |-> "create_signing_key",
                args |-> [environ |-> env["RISK_API_ED25519_SK_HEX"]],
                ret |-> create_signing_key]
    /\ UNCHANGED <<env, backend, pinned, app>>

\* SigningKey(secret_key_hex) on a text
Call_SigningKey ==
    /\ \E s \in SecretTexts \ {None} :
          call' = [fn |-> "SigningKey", args |-> [secret_key_hex |-> s],
                   ret |-> SigningKey(s)]
    /\ UNCHANGED <<env, backend, pinned, app>>

\* the key a call of get_signing_key returned signs a snapshot
Sign_with_loaded_key ==
    /\ Done("get_signing_key") /\ call.ret.ok
    /\ \E d \in SignedData :
          call' = [fn |-> "sign", args |-> [self |-> call.ret.val, data |-> d],
                   ret |-> sign(call.ret.val, d)]
    /\ UNCHANGED <<env, backend, pinned, app>>

InitKey ==
    /\ env \in {[EnvUnset EXCEPT !["RISK_API_ED25519_SK_HEX"] = v] : v \in SecretTexts}
    /\ backend = "coincurve"
    /\ call = NoCall
    /\ pinned = NoCall
    /\ app = NotImported

NextKey ==
    \/ Setenv_secret
    \/ Call_get_signing_key
    \/ Call_create_signing_key
    \/ Call_SigningKey
    \/ Sign_with_loaded_key

SpecKey == InitKey /\ [][NextKey]_vars

\* C19: after get_signing_key has succeeded, every later call returns the same
\* key, even if RISK_API_ED25519_SK_HEX is changed or removed afterwards, so
\* every signature issued verifies under one unchanging public key.
KeyLoadedOnce ==
    [][pinned.fn = "get_signing_key" =>
          /\ pinned' = pinned
          /\ call'.fn = "get_signing_key" =>
                (call'.ret.ok /\ call'.ret.val = pinned.ret.val)
          /\ call'.fn = "sign" =>
                /\ call'.ret.ok
                /\ verify_signature(call'.args.data, call'.ret.val,
                                    public_key_hex(pinned.ret.val))]_vars

\* a key is loaded, the variable now names the other key, and the loaded key
\* has signed
KeyKeptAfterChange ==
    /\ pinned.fn = "get_signing_key"
    /\ pinned.ret.val = SigningKey(TestSecret).val
    /\ env["RISK_API_ED25519_SK_HEX"] = OtherSecret
    /\ call.fn = "sign"
    /\ call.args.self = SigningKey(TestSecret).val

\* C20: a failed load of the secret is fatal and is not retried: once
\* get_signing_key has failed, every later call fails too, whatever is done to
\* the environment in between.
FailedLoadIsFatal ==
    [][(call.fn = "get_signing_key" /\ ~call.ret.ok /\ call'.fn = "get_signing_key")
          => ~call'.ret.ok]_vars

\* a string of 64 hexadecimal characters
IsSecretText(s) == Len(s) = 64 /\ \A i \in 1..Len(s) : HexVal(s[i]) >= 0

Unset(value) == value = None \/ value = <<>>

\* a call that made a key has failed with ValueError and has left no key
FailedWithValueError == ~call.ret.ok /\ call.ret.err = "ValueError" /\ call.ret.val = 0

ConstructorFailsOnBadText ==
    Done("SigningKey") =>
        /\ ~IsSecretText(call.args.secret_key_hex) <=> FailedWithValueError
        /\ IsSecretText(call.args.secret_key_hex) <=> call.ret.ok

NothingSignedAfterFailure ==
    (call.fn \in {"SigningKey", "get_signing_key", "create_signing_key"} /\ ~call.ret.ok)
        => ~ENABLED Sign_with_loaded_key

\* the statement as written: get_signing_key fails whenever the variable is
\* unset or empty at the call
KeyFailsWithoutSecret ==
    /\ ConstructorFailsOnBadText
    /\ (call.fn \in {"get_signing_key", "create_signing_key"} /\ Unset(call.args.environ))
          => FailedWithValueError
    /\ NothingSignedAfterFailure

\* C21: SigningKey fails with a ValueError exactly when the secret is not a
\* string of 64 hexadecimal characters; create_signing_key fails with a
\* ValueError when RISK_API_ED25519_SK_HEX is unset or empty, and so does
\* get_signing_key unless an earlier call has loaded a key; a failed call
\* leaves no key and nothing can be signed with its result.
KeyFailsWithoutSecretUnlessLoaded ==
    /\ ConstructorFailsOnBadText
    /\ (call.fn = "create_signing_key" /\ Unset(call.args.environ)) => FailedWithValueError
    /\ (call.fn = "get_signing_key" /\ Unset(call.args.environ) /\ pinned.fn = "none")
          => FailedWithValueError
    /\ NothingSignedAfterFailure

\* with no key loaded and the variable set to the empty string, get_signing_key
\* has failed
LoadFailedOnEmptySecret ==
    /\ call.fn = "get_signing_key"
    /\ call.args.environ = <<>>
    /\ FailedWithValueError
    /\ pinned.fn = "none"

----------------------------------------------------------------------------
(* risk_api/providers/safety.py *)

\* 1.0 in RAY, 10^27 in the source, with four decimal places here so that the
\* products stay inside the integers of the checker
Ray == 10000

\* SafetyProvider.__init__
SafetyProvider ==
    [bounds |-> [level \in 0..2 |->
                    CASE level = 0 -> <<9800, 10200>>
                      [] level = 1 -> <<9900, 10100>>
                      [] level = 2 -> <<9975, 10025>>],
     default_max_jump_bps |-> 500,
     default_prev_nav_ray |-> Ray]

\* a provider whose lower bound is exclusive
get_lane_pretrade_data_open_below(self, price_bps, emergency_level) ==
    LET pair == IF emergency_level \in DOMAIN self.bounds THEN self.bounds[emergency_level]
                ELSE self.bounds[2]
    IN  [ok |-> IF pair[1] < price_bps /\ price_bps <= pair[2] THEN 1 ELSE 0,
         min_bps |-> pair[1], max_bps |-> pair[2],
         price_bps |-> price_bps, emergency_level |-> emergency_level]

\* SafetyProvider.get_lane_pretrade_data
get_lane_pretrade_data(self, price_bps, emergency_level) ==
    LET pair == IF emergency_level \in DOMAIN self.bounds THEN self.bounds[emergency_level]
                ELSE self.bounds[2]
        min_bps == pair[1]
        max_bps == pair[2]
        ok == IF min_bps <= price_bps /\ price_bps <= max_bps THEN 1 ELSE 0
    IN  [ok |-> ok, min_bps |-> min_bps, max_bps |-> max_bps,
         price_bps |-> price_bps, emergency_level |-> emergency_level]

\* a provider that takes a previous NAV of 0 for a missing one
get_nav_sanity_data_zero_is_none(self, proposed_nav_ray, max_jump_bps, emergency_enabled, prev_nav_ray) ==
    LET jump == IF max_jump_bps = None THEN self.default_max_jump_bps ELSE max_jump_bps[2]
        given == prev_nav_ray # None /\ prev_nav_ray # PyInt(0)
        prev == IF given THEN prev_nav_ray[2] ELSE self.default_prev_nav_ray
        hi == (prev * (10000 + jump)) \div 10000
        lo == (prev * (10000 - jump)) \div 10000
    IN  [ok |-> IF prev # 0 /\ emergency_enabled = 0 /\ ~(lo <= proposed_nav_ray /\ proposed_nav_ray <= hi)
                THEN 0 ELSE 1,
         prev_nav_ray |-> prev, proposed_nav_ray |-> proposed_nav_ray, max_jump_bps |-> jump,
         emergency_enabled |-> emergency_enabled, assumed_prev |-> IF given THEN 0 ELSE 1]

\* a provider with the signs of the two bounds exchanged
get_nav_sanity_data_swapped_bounds(self, proposed_nav_ray, max_jump_bps, emergency_enabled, prev_nav_ray) ==
    LET jump == IF max_jump_bps = None THEN self.default_max_jump_bps ELSE max_jump_bps[2]
        prev == IF prev_nav_ray = None THEN self.default_prev_nav_ray ELSE prev_nav_ray[2]
        hi == (prev * (10000 - jump)) \div 10000
        lo == (prev * (10000 + jump)) \div 10000
    IN  [ok |-> IF prev # 0 /\ emergency_enabled = 0 /\ ~(lo <= proposed_nav_ray /\ proposed_nav_ray <= hi)
                THEN 0 ELSE 1,
         prev_nav_ray |-> prev, proposed_nav_ray |-> proposed_nav_ray, max_jump_bps |-> jump,
         emergency_enabled |-> emergency_enabled,
         assumed_prev |-> IF prev_nav_ray = None THEN 1 ELSE 0]

\* SafetyProvider.get_nav_sanity_data; an argument that is not supplied is None,
\* one that is supplied is PyInt(n)
get_nav_sanity_data(self, proposed_nav_ray, max_jump_bps, emergency_enabled, prev_nav_ray) ==
    LET jump == IF max_jump_bps = None THEN self.default_max_jump_bps ELSE max_jump_bps[2]
        prev == IF prev_nav_ray = None THEN self.default_prev_nav_ray ELSE prev_nav_ray[2]
        assumed_prev == IF prev_nav_ray = None THEN 1 ELSE 0
        hi == (prev * (10000 + jump)) \div 10000
        lo == (prev * (10000 - jump)) \div 10000
        ok == IF prev # 0 /\ emergency_enabled = 0 /\ ~(lo <= proposed_nav_ray /\ proposed_nav_ray <= hi)
              THEN 0 ELSE 1
    IN  [ok |-> ok, prev_nav_ray |-> prev, proposed_nav_ray |-> proposed_nav_ray,
         max_jump_bps |-> jump, emergency_enabled |-> emergency_enabled,
         assumed_prev |-> assumed_prev]

----------------------------------------------------------------------------
(* Safety checks *)

\* prices at, one inside and one outside every lane bound
LanePrices ==
    UNION {{b - 1, b, b + 1} : b \in {9800, 9900, 9975, 10025, 10100, 10200}}
    \cup {-1, 0, 10000}

EmergencyLevels == {-1, 0, 1, 2, 3, 4, 255}

\* previous NAVs: missing, zero, a few units, 1.0, 1.5 and a negative one
PrevNavs == {None, PyInt(0), PyInt(3), PyInt(Ray), PyInt(Ray + (Ray \div 2)), PyInt(-Ray)}

MaxJumps == {None, PyInt(-1), PyInt(0), PyInt(1), PyInt(200), PyInt(500), PyInt(10000), PyInt(20000)}

EmergencyFlags == {0, 1, 2}

\* proposed NAVs around the bounds the jumps above give
ProposedNavs ==
    {-Ray, -1, 0, 1, 2, 3, 4, Ray \div 2, Ray - (Ray \div 20) - 1, Ray - (Ray \div 20),
     Ray - (Ray \div 50), Ray - 1, Ray, Ray + 1, Ray + (Ray \div 50) + 1,
     Ray + (Ray \div 20), Ray + (Ray \div 20) + 1, Ray + (Ray \div 2), 2 * Ray, 3 * Ray}

LaneCalls ==
    {Invoke("get_lane_pretrade_data", [price_bps |-> p, emergency_level |-> l]) :
        p \in LanePrices, l \in EmergencyLevels}

NavCalls ==
    {Invoke("get_nav_sanity_data", [proposed_nav_ray |-> n, max_jump_bps |-> m,
                                    emergency_enabled |-> e, prev_nav_ray |-> p]) :
        n \in ProposedNavs, m \in MaxJumps, e \in EmergencyFlags, p \in PrevNavs}

Return_get_lane_pretrade_data ==
    /\ Running("get_lane_pretrade_data")
    /\ call' = [call EXCEPT !.ret =
                  Ok(get_lane_pretrade_data(SafetyProvider, call.args.price_bps,
                                            call.args.emergency_level))]
    /\ UNCHANGED <<env, backend, pinned, app>>

Return_get_nav_sanity_data ==
    /\ Running("get_nav_sanity_data")
    /\ call' = [call EXCEPT !.ret =
                  Ok(get_nav_sanity_data(SafetyProvider, call.args.proposed_nav_ray,
                                         call.args.max_jump_bps, call.args.emergency_enabled,
                                         call.args.prev_nav_ray))]
    /\ UNCHANGED <<env, backend, pinned, app>>

\* the same price is checked at another level
Invoke_at_other_level ==
    /\ Done("get_lane_pretrade_data")
    /\ pinned.fn = "none"
    /\ pinned' = call
    /\ call' \in {c \in LaneCalls : c.args.price_bps = call.args.price_bps}
    /\ UNCHANGED <<env, backend, app>>

\* the same NAVs are checked with another jump limit
Invoke_with_other_jump ==
    /\ Done("get_nav_sanity_data")
    /\ pinned.fn = "none"
    /\ pinned' = call
    /\ call' \in {c \in NavCalls :
                    /\ c.args.proposed_nav_ray = call.args.proposed_nav_ray
                    /\ c.args.emergency_enabled = call.args.emergency_enabled
                    /\ c.args.prev_nav_ray = call.args.prev_nav_ray}
    /\ UNCHANGED <<env, backend, app>>

InitSafety ==
    /\ env = EnvUnset
    /\ backend = "coincurve"
    /\ call \in LaneCalls \cup NavCalls
    /\ pinned = NoCall
    /\ app = NotImported

NextSafety ==
    \/ Return_get_lane_pretrade_data
    \/ Return_get_nav_sanity_data
    \/ Invoke_at_other_level
    \/ Invoke_with_other_jump

SpecSafety == InitSafety /\ [][NextSafety]_vars

\* lo <= n <= hi for lo = floor(x / 10000) and hi = floor(y / 10000), without
\* a division
BetweenFloors(x, n, y) == x < (n + 1) * 10000 /\ n * 10000 <= y

\* C22: get_nav_sanity_data returns ok = 1 exactly when emergency_enabled is
\* set, or prev is 0, or lo <= proposed_nav_ray <= hi with both ends inclusive,
\* hi = floor(prev*(10000+max_jump_bps)/10000) and
\* lo = floor(prev*(10000-max_jump_bps)/10000); prev is the supplied
\* prev_nav_ray, or 1.0 RAY with assumed_prev = 1 when none is supplied
\* (assumed_prev = 0 whenever one is supplied, including 0), and max_jump_bps is
\* 500 when not supplied.
NavSanityRule ==
    Done("get_nav_sanity_data") =>
        LET a == call.args
            r == call.ret.val
            supplied == a.prev_nav_ray # None
            prev == IF supplied THEN a.prev_nav_ray[2] ELSE Ray
            jump == IF a.max_jump_bps = None THEN 500 ELSE a.max_jump_bps[2]
        IN  /\ r.ok \in {0, 1}
            /\ r.ok = 1 <=> \/ a.emergency_enabled # 0
                            \/ prev = 0
                            \/ BetweenFloors(prev * (10000 - jump), a.proposed_nav_ray,
                                             prev * (10000 + jump))
            /\ r.prev_nav_ray = prev
            /\ r.assumed_prev = (IF supplied THEN 0 ELSE 1)
            /\ r.max_jump_bps = jump

\* a previous NAV of 0 was supplied and a proposed NAV far from 1.0 has passed
SuppliedZeroPrevPasses ==
    /\ Done("get_nav_sanity_data")
    /\ call.args.prev_nav_ray = PyInt(0)
    /\ call.args.max_jump_bps = None
    /\ call.args.emergency_enabled = 0
    /\ call.args.proposed_nav_ray = 3 * Ray
    /\ call.ret.val.ok = 1
    /\ call.ret.val.assumed_prev = 0

\* the bounds the policy gives a level
PolicyBounds(level) ==
    CASE level = 0 -> <<9800, 10200>>
      [] level = 1 -> <<9900, 10100>>
      [] level >= 2 -> <<9975, 10025>>
      [] OTHER -> <<>>

\* C23: get_lane_pretrade_data returns the bounds [9800, 10200] for level 0,
\* [9900, 10100] for level 1, [9975, 10025] for level 2 and the level-2 bounds
\* for every level >= 3; ok = 1 exactly when min_bps <= price_bps <= max_bps
\* with both ends inclusive, and price_bps and emergency_level are echoed.
LaneBoundsByLevel ==
    Done("get_lane_pretrade_data") =>
        LET a == call.args
            r == call.ret.val
        IN  /\ a.emergency_level >= 0 => <<r.min_bps, r.max_bps>> = PolicyBounds(a.emergency_level)
            /\ r.ok \in {0, 1}
            /\ r.ok = 1 <=> (r.min_bps <= a.price_bps /\ a.price_bps <= r.max_bps)
            /\ r.price_bps = a.price_bps
            /\ r.emergency_level = a.emergency_level

\* a price on the lower bound of level 255 has passed
LowerBoundPassesAtHighLevel ==
    /\ Done("get_lane_pretrade_data")
    /\ call.args.emergency_level = 255
    /\ call.args.price_bps = 9975
    /\ call.ret.val.ok = 1
    /\ call.ret.val.min_bps = 9975

\* the check has accepted a price at the later level
OkAt(c) == c.fn = "get_lane_pretrade_data" /\ c.ret.ok /\ c.ret.val.ok = 1

\* C24: lane bounds tighten monotonically with the emergency level: for two
\* levels L1 <= L2 and any price, a price that is ok at L2 is ok at L1, the
\* interval at L2 lies inside the interval at L1, and no level has bounds
\* tighter than level 2.
LaneBoundsTighten ==
    /\ Done("get_lane_pretrade_data") =>
          /\ call.ret.val.min_bps <= 9975
          /\ call.ret.val.max_bps >= 10025
    /\ (Done("get_lane_pretrade_data") /\ pinned.fn = "get_lane_pretrade_data"
            /\ pinned.args.emergency_level <= call.args.emergency_level)
          => /\ OkAt(call) => OkAt(pinned)
             /\ pinned.ret.val.min_bps <= call.ret.val.min_bps
             /\ call.ret.val.max_bps <= pinned.ret.val.max_bps

\* the two calls to compare have the jump limits m <= m', emergency off and a
\* previous NAV above 0
LoosenedJump ==
    /\ Done("get_nav_sanity_data") /\ pinned.fn = "get_nav_sanity_data"
    /\ call.args.emergency_enabled = 0
    /\ call.ret.val.prev_nav_ray > 0
    /\ pinned.ret.val.max_jump_bps <= call.ret.val.max_jump_bps

\* C26: loosening the NAV jump limit never rejects more: with emergency off and
\* prev_nav_ray > 0, a proposed NAV that is ok with max_jump_bps = m is ok with
\* every m' >= m, and a proposed NAV equal to prev_nav_ray is ok for every
\* max_jump_bps >= 0.
LooserJumpAcceptsMore ==
    /\ LoosenedJump => (pinned.ret.val.ok = 1 => call.ret.val.ok = 1)
    /\ (Done("get_nav_sanity_data") /\ call.args.emergency_enabled = 0
            /\ call.ret.val.prev_nav_ray > 0 /\ call.ret.val.max_jump_bps >= 0
            /\ call.args.proposed_nav_ray = call.ret.val.prev_nav_ray)
          => call.ret.val.ok = 1

\* a rise of 2% on 1.0 is turned down at a jump of 1 and passes at the default
RejectedThenAccepted ==
    /\ LoosenedJump
    /\ pinned.args.max_jump_bps = PyInt(1)
    /\ call.args.max_jump_bps = None
    /\ call.args.prev_nav_ray = PyInt(Ray)
    /\ call.args.proposed_nav_ray = Ray + (Ray \div 50) + 1
    /\ pinned.ret.val.ok = 0
    /\ call.ret.val.ok = 1

\* no private key is configured
KeyFromSeed == env["RISK_ORACLE_PRIVATE_KEY"] = None

\* C25: key provisioning is deterministic: when RISK_ORACLE_PRIVATE_KEY is set,
\* load_or_create_key returns it unchanged; otherwise it returns a key that
\* depends only on SEED (42 when unset), written as '0x' followed by exactly 64
\* hex digits, and usable by sign_digest and public_address, for every SEED
\* value that can be configured.
KeyProvisioningDeterministic ==
    /\ Done("load_or_create_key") =>
          /\ call.ret.ok
          /\ ~KeyFromSeed => call.ret.val = env["RISK_ORACLE_PRIVATE_KEY"]
          /\ KeyFromSeed =>
                /\ Len(call.ret.val) = 66
                /\ SubSeq(call.ret.val, 1, 2) = <<"0", "x">>
                /\ IsHexText(DropTwo(call.ret.val))
                /\ env["SEED"] = None => call.ret.val = <<"0", "x">> \o FormatHex(42, 64)
    /\ (call.fn \in {"sign_digest", "public_address"} /\ call.ret.err # "pending" /\ KeyFromSeed)
          => call.ret.ok

----------------------------------------------------------------------------
(* risk_api/providers, risk_api/deps.py and risk_api/app.py: the signed endpoints *)

\* the text of a field name
FieldText(k) ==
    CASE k = "nav_ray" -> <<"n", "a", "v", "_", "r", "a", "y">>
      [] k = "model_hash" -> <<"m", "o", "d", "e", "l", "_", "h", "a", "s", "h">>
      [] k = "emergency_nav_ray" -> <<"e", "m", "e", "r", "g", "e", "n", "c", "y", "_", "n", "a", "v", "_", "r", "a", "y">>
      [] k = "emergency_enabled" -> <<"e", "m", "e", "r", "g", "e", "n", "c", "y", "_", "e", "n", "a", "b", "l", "e", "d">>
      [] k = "ts" -> <<"t", "s">>
      [] k = "level" -> <<"l", "e", "v", "e", "l">>
      [] k = "reason" -> <<"r", "e", "a", "s", "o", "n">>
      [] k = "locked" -> <<"l", "o", "c", "k", "e", "d">>
      [] k = "cap_tokens" -> <<"c", "a", "p", "_", "t", "o", "k", "e", "n", "s">>
      [] k = "detach_bps" -> <<"d", "e", "t", "a", "c", "h", "_", "b", "p", "s">>
      [] k = "ratify_until" -> <<"r", "a", "t", "i", "f", "y", "_", "u", "n", "t", "i", "l">>
      [] k = "defaults_bps" -> <<"d", "e", "f", "a", "u", "l", "t", "s", "_", "b", "p", "s">>
      [] k = "sovereign_usage_bps" -> <<"s", "o", "v", "e", "r", "e", "i", "g", "n", "_", "u", "s", "a", "g", "e", "_", "b", "p", "s">>
      [] k = "correlation_bps" -> <<"c", "o", "r", "r", "e", "l", "a", "t", "i", "o", "n", "_", "b", "p", "s">>
      [] k = "ok" -> <<"o", "k">>
      [] k = "min_bps" -> <<"m", "i", "n", "_", "b", "p", "s">>
      [] k = "max_bps" -> <<"m", "a", "x", "_", "b", "p", "s">>
      [] k = "price_bps" -> <<"p", "r", "i", "c", "e", "_", "b", "p", "s">>
      [] k = "emergency_level" -> <<"e", "m", "e", "r", "g", "e", "n", "c", "y", "_", "l", "e", "v", "e", "l">>
      [] k = "prev_nav_ray" -> <<"p", "r", "e", "v", "_", "n", "a", "v", "_", "r", "a", "y">>
      [] k = "proposed_nav_ray" -> <<"p", "r", "o", "p", "o", "s", "e", "d", "_", "n", "a", "v", "_", "r", "a", "y">>
      [] k = "max_jump_bps" -> <<"m", "a", "x", "_", "j", "u", "m", "p", "_", "b", "p", "s">>
      [] k = "assumed_prev" -> <<"a", "s", "s", "u", "m", "e", "d", "_", "p", "r", "e", "v">>
      [] k = "sig" -> <<"s", "i", "g">>

\* {name: values[name], ...} in the order of names
DictOf(names, values) == PyDict([i \in 1..Len(names) |-> <<FieldText(names[i]), values[names[i]]>>])

\* the default of NAV_MODEL_HASH, shortened to its first bytes
DefaultModelHash == <<"0", "x", "1", "2", "3", "4">>

\* NavProvider(), EmergencyProvider(), IssuanceProvider(), RiskProvider() with
\* no variable set; 1.0 RAY is Ray and the issuance cap is scaled alike
DefaultProviders ==
    [nav |-> [nav_ray |-> Ray, model_hash |-> DefaultModelHash,
              emergency_nav_ray |-> Ray, emergency_enabled |-> 0],
     emergency |-> [level |-> 0, reason |-> <<"n", "o", "r", "m", "a", "l">>],
     issuance |-> [locked |-> 0, cap_tokens |-> 444 * Ray, detach_bps |-> 10200,
                   ratify_until |-> 0],
     risk |-> [defaults_bps |-> 300, sovereign_usage_bps |-> 0, correlation_bps |-> 250]]

\* NavProvider.get_nav_data, with now = int(time.time())
get_nav_data(self, now) ==
    DictOf(<<"nav_ray", "model_hash", "emergency_nav_ray", "emergency_enabled", "ts">>,
           [nav_ray |-> PyInt(self.nav_ray), model_hash |-> PyStr(self.model_hash),
            emergency_nav_ray |-> PyInt(self.emergency_nav_ray),
            emergency_enabled |-> PyInt(self.emergency_enabled), ts |-> PyInt(now)])

\* EmergencyProvider.get_emergency_data
get_emergency_data(self, now) ==
    DictOf(<<"level", "reason", "ts">>,
           [level |-> PyInt(self.level), reason |-> PyStr(self.reason), ts |-> PyInt(now)])

\* IssuanceProvider.get_issuance_data
get_issuance_data(self, now) ==
    DictOf(<<"locked", "cap_tokens", "detach_bps", "ratify_until", "ts">>,
           [locked |-> PyInt(self.locked), cap_tokens |-> PyInt(self.cap_tokens),
            detach_bps |-> PyInt(self.detach_bps),
            ratify_until |-> PyInt(self.ratify_until), ts |-> PyInt(now)])

\* RiskProvider.get_risk_data
get_risk_data(self, now) ==
    DictOf(<<"defaults_bps", "sovereign_usage_bps", "correlation_bps", "ts">>,
           [defaults_bps |-> PyInt(self.defaults_bps),
            sovereign_usage_bps |-> PyInt(self.sovereign_usage_bps),
            correlation_bps |-> PyInt(self.correlation_bps), ts |-> PyInt(now)])

\* data["ts"] = now on a dict of the safety provider
Stamped(names, values, now) ==
    DictOf(names \o <<"ts">>,
           [k \in {names[i] : i \in 1..Len(names)} \cup {"ts"} |->
               PyInt(IF k = "ts" THEN now ELSE values[k])])

\* the response model built from data[name] for each name, and sig
ResponseModel(data, names, signature) ==
    PyDict([i \in 1..Len(names) |-> <<FieldText(names[i]), Field(data, FieldText(names[i]))>>]
           \o << <<FieldText("sig"), PyStr(signature)>> >>)

\* the body every handler shares: sign the data, return its fields and sig
SignedResponse(signing_key, data, names) ==
    LET signature == sign(signing_key, data)
    IN  IF ~signature.ok THEN signature
        ELSE Ok(ResponseModel(data, names, signature.val))

get_nav_latest(signing_key, nav_provider, now) ==
    SignedResponse(signing_key, get_nav_data(nav_provider, now),
                   <<"nav_ray", "model_hash", "emergency_nav_ray", "emergency_enabled", "ts">>)

get_emergency_level(signing_key, emergency_provider, now) ==
    SignedResponse(signing_key, get_emergency_data(emergency_provider, now),
                   <<"level", "reason", "ts">>)

get_issuance_state(signing_key, issuance_provider, now) ==
    SignedResponse(signing_key, get_issuance_data(issuance_provider, now),
                   <<"locked", "cap_tokens", "detach_bps", "ratify_until", "ts">>)

get_risk_summary(signing_key, risk_provider, now) ==
    SignedResponse(signing_key, get_risk_data(risk_provider, now),
                   <<"defaults_bps", "sovereign_usage_bps", "correlation_bps", "ts">>)

get_lane_pretrade_check(price_bps, emergency_level, signing_key, safety_provider, now) ==
    LET names == <<"ok", "min_bps", "max_bps", "price_bps", "emergency_level">>
        pretrade_data == Stamped(names, get_lane_pretrade_data(safety_provider, price_bps,
                                                               emergency_level), now)
    IN  SignedResponse(signing_key, pretrade_data, names \o <<"ts">>)

get_nav_sanity_check(proposed_nav_ray, max_jump_bps, emergency, prev_nav_ray, signing_key, safety_provider, now) ==
    LET names == <<"ok", "prev_nav_ray", "proposed_nav_ray", "max_jump_bps",
                   "emergency_enabled", "assumed_prev">>
        nav_sanity_data == Stamped(names, get_nav_sanity_data(safety_provider, proposed_nav_ray,
                                                              max_jump_bps, emergency,
                                                              prev_nav_ray), now)
    IN  SignedResponse(signing_key, nav_sanity_data, names \o <<"ts">>)

\* the names deps.py defines
DepsExports ==
    {"get_signing_key", "get_providers", "get_nav_provider", "get_emergency_provider",
     "get_issuance_provider", "get_risk_provider"}

\* from .deps import ... (app.py:15-22)
RiskAppImports ==
    {"get_signing_key", "get_nav_provider", "get_emergency_provider",
     "get_issuance_provider", "get_risk_provider", "get_safety_provider"}

\* seconds the clock moves on
MaxTicks == 2

StartTime == 1726000000

\* the process before risk_api.app is imported
RiskAppStart ==
    [imported |-> FALSE, error |-> "none", providers |-> DefaultProviders, ticks |-> 0]

\* import risk_api.app
Import_risk_app ==
    /\ ~app.imported /\ app.error = "none"
    /\ app' = IF RiskAppImports \subseteq DepsExports
              THEN [app EXCEPT !.imported = TRUE]
              ELSE [app EXCEPT !.error = "ImportError"]
    /\ UNCHANGED <<env, backend, call, pinned>>

\* the _set_* methods of the providers
Set_provider ==
    /\ \/ \E v \in {Ray, Ray + 1} : app' = [app EXCEPT !.providers.nav.nav_ray = v]
       \/ \E v \in {0, 1} : app' = [app EXCEPT !.providers.nav.emergency_enabled = v]
       \/ \E v \in {0, 1, 2} : app' = [app EXCEPT !.providers.emergency.level = v]
       \/ \E v \in {0, 1} : app' = [app EXCEPT !.providers.issuance.locked = v]
       \/ \E v \in {300, 301} : app' = [app EXCEPT !.providers.risk.defaults_bps = v]
    /\ UNCHANGED <<env, backend, call, pinned>>

\* time.time() moves to the next second
Tick ==
    /\ app.ticks < MaxTicks
    /\ app' = [app EXCEPT !.ticks = @ + 1]
    /\ UNCHANGED <<env, backend, call, pinned>>

Queries ==
    {[endpoint |-> e] : e \in {"nav/latest", "emergency/level", "issuance/state", "risk/summary"}}
    \cup {[endpoint |-> "lane/pretrade", price_bps |-> p, emergency_level |-> l] :
             p \in {9800, 10000}, l \in {0, 3}}
    \cup {[endpoint |-> "oracle/nav-sanity", proposed_nav_ray |-> n, max_jump_bps |-> PyInt(500),
            emergency |-> 0, prev_nav_ray |-> None] : n \in {Ray, 2 * Ray}}

\* a GET on a signed endpoint: without the module there is no handler; a
\* handler runs without a pause, from its dependencies to its return
Serve(q, signing_key) ==
    LET now == StartTime + app.ticks
        providers == app.providers
    IN  IF ~app.imported THEN Raise(app.error)
        ELSE IF ~signing_key.ok THEN signing_key
        ELSE CASE q.endpoint = "nav/latest" -> get_nav_latest(signing_key.val, providers.nav, now)
               [] q.endpoint = "emergency/level" ->
                    get_emergency_level(signing_key.val, providers.emergency, now)
               [] q.endpoint = "issuance/state" ->
                    get_issuance_state(signing_key.val, providers.issuance, now)
               [] q.endpoint = "risk/summary" ->
                    get_risk_summary(signing_key.val, providers.risk, now)
               [] q.endpoint = "lane/pretrade" ->
                    get_lane_pretrade_check(q.price_bps, q.emergency_level, signing_key.val,
                                            SafetyProvider, now)
               [] q.endpoint = "oracle/nav-sanity" ->
                    get_nav_sanity_check(q.proposed_nav_ray, q.max_jump_bps, q.emergency,
                                         q.prev_nav_ray, signing_key.val, SafetyProvider, now)

Request ==
    /\ app.imported \/ app.error # "none"
    /\ \E q \in Queries :
          LET signing_key == lru_cache(pinned, get_signing_key)
          IN  /\ call' = [fn |-> "request", args |-> q, ret |-> Serve(q, signing_key)]
              /\ pinned' = IF app.imported /\ pinned.fn = "none" /\ signing_key.ok
                            THEN [fn |-> "get_signing_key", args |-> <<>>, ret |-> signing_key]
                            ELSE pinned
    /\ UNCHANGED <<env, backend, app>>

InitRiskApp ==
    /\ env \in {[EnvUnset EXCEPT !["RISK_API_ED25519_SK_HEX"] = v] : v \in {TestSecret, None}}
    /\ backend = "coincurve"
    /\ call = NoCall
    /\ pinned = NoCall
    /\ app = RiskAppStart

NextRiskApp == Import_risk_app \/ Set_provider \/ Tick \/ Request

SpecRiskApp == InitRiskApp /\ [][NextRiskApp]_vars

\* the response without its sig
WithoutSig(response) == PyDict(SelectSeq(response[2], LAMBDA item : item[1] # FieldText("sig")))

\* C27: each signed endpoint signs and returns one and the same snapshot: a
\* request gets a response whose fields other than sig are the fields that
\* were signed, with the same values (ts included), so that sig verifies over
\* the returned fields under the key of the process, whatever setter calls
\* come before or after the request.
EndpointsSignWhatTheyReturn ==
    (Done("request") /\ env["RISK_API_ED25519_SK_HEX"] = TestSecret) =>
        /\ call.ret.ok
        /\ verify_signature(WithoutSig(call.ret.val), Field(call.ret.val, FieldText("sig"))[2],
                            public_key_hex(SigningKey(TestSecret).val))

----------------------------------------------------------------------------
(* The model as a chain: score_risk, then price_cds and get_risk_score_bps
   on the pdBps and lgdBps it returned *)

ModelFeatures ==
    PriceFeatures
    \cup {Overlay(EmptyFeatures, k1, v1, k2, v2) :
            k1 \in {"size", "industryStress"}, v1 \in FeatureValues,
            k2 \in {"volatility", "collateralQuality"}, v2 \in FeatureValues}
    \cup {Overlay(EmptyFeatures, "volatility", -100000, "countryRisk", v) : v \in {0, -100000}}

ModelEnvs ==
    {[EnvUnset EXCEPT !["SEED"] = s, !["MODEL_JITTER_BPS_OVERRIDE"] = o] :
        s \in {None, <<>>, <<"7">>}, o \in {None, <<"3">>, <<"-", "5">>, <<"a", "b", "c">>}}

\* price_cds(obligor_id, tenor_days, features, pdBps, lgdBps, as_of) on the score
Invoke_price_cds_on_score ==
    /\ Done("score_risk") /\ call.ret.ok
    /\ pinned' = call
    /\ call' = Invoke("price_cds",
                      [obligor_id |-> call.args.obligor_id, tenor_days |-> call.args.tenor_days,
                       features |-> call.args.features, pd_bps |-> call.ret.val.pdBps,
                       lgd_bps |-> call.ret.val.lgdBps, as_of |-> call.args.as_of])
    /\ UNCHANGED <<env, backend, app>>

\* get_risk_score_bps(pdBps, lgdBps) on the score
Invoke_get_risk_score_bps_on_score ==
    /\ Done("score_risk") /\ call.ret.ok
    /\ pinned' = call
    /\ call' = Invoke("get_risk_score_bps",
                      [pd_bps |-> call.ret.val.pdBps, lgd_bps |-> call.ret.val.lgdBps])
    /\ UNCHANGED <<env, backend, app>>

InitModel ==
    /\ env \in ModelEnvs
    /\ backend = "coincurve"
    /\ call \in ScoreCalls(ModelFeatures, {<<"A", "C", "M", "E">>}, TenorDays, {1726000000})
    /\ pinned = NoCall
    /\ app = NotImported

NextModel ==
    \/ Return_score_risk
    \/ Invoke_price_cds_on_score
    \/ Return_price_cds
    \/ Invoke_get_risk_score_bps_on_score
    \/ Return_get_risk_score_bps

SpecModel == InitModel /\ [][NextModel]_vars

\* C28: every value the model produces fits its payload field: the
\* correlationBps and fairSpreadBps returned by price_cds lie in [0, 65535], and
\* get_risk_score_bps applied to the pdBps and lgdBps of a score_risk result
\* lies in [1, 2700].
ModelOutputsFitPayload ==
    /\ (Done("price_cds") /\ call.ret.ok) =>
          /\ call.ret.val.correlationBps \in 0..65535
          /\ call.ret.val.fairSpreadBps \in 0..65535
    /\ (Done("get_risk_score_bps") /\ pinned.fn = "score_risk") =>
          /\ call.ret.ok
          /\ call.ret.val \in 1..2700

\* a spread whose raw value is below zero has been returned as 25, and the
\* score it was priced on had the lowest pdBps and lgdBps
NegativeRawSpreadClamped ==
    /\ Done("price_cds") /\ call.ret.ok
    /\ pinned.fn = "score_risk"
    /\ call.args.pd_bps = 5 /\ call.args.lgd_bps = 2000
    /\ FAdd(FAdd(call.ret.val.elBps, call.ret.val.liqBps), call.ret.val.rpBps) < -5000
    /\ call.ret.val.fairSpreadBps = 25

\* math.floor of a float
FloatFloor(x) ==
    IF x = NaN THEN Raise("ValueError")
    ELSE IF ~IsFinite(x) THEN Raise("OverflowError")
    ELSE Ok(x \div 10000)

\* math.floor(value + 0.5)
FloorHalfUp(value) == FloatFloor(FAdd(value, 5000))

\* score_risk with math.floor(x + 0.5) in the place of round_half_up
ScoreWithFloor(features, obligor_id, tenor_days, as_of) ==
    LET size == Get(features, "size")
        leverage == Get(features, "leverage")
        volatility == Get(features, "volatility")
        fx_exposure == Get(features, "fxExposure")
        country_risk == Get(features, "countryRisk")
        industry_stress == Get(features, "industryStress")
        collateral_quality == Get(features, "collateralQuality")
        data_quality == Get(features, "dataQuality")
        model_shift == Get(features, "modelShift")
        pd_bps_raw ==
            FAdd(FAdd(FAdd(FAdd(FMul(50, 1, size), FMul(80, 1, leverage)),
                           FMul(40, 1, volatility)),
                      FMul(30, 1, fx_exposure)),
                 FMul(20, 1, country_risk))
        pd_round == FloorHalfUp(pd_bps_raw)
        lgd_bps_raw ==
            FAdd(FAdd(45000000, FMul(10, 1, industry_stress)),
                 FNeg(FMul(5, 1, collateral_quality)))
        lgd_round == FloorHalfUp(lgd_bps_raw)
        score_confidence ==
            clamp(FAdd(FAdd(5000, FMul(1, 20, data_quality)),
                       FNeg(FMul(3, 100, model_shift))),
                  3000, 9500)
    IN  IF ~pd_round.ok THEN pd_round
        ELSE IF ~lgd_round.ok THEN lgd_round
        ELSE Ok([pdBps |-> clamp(pd_round.val, 5, 3000),
                 lgdBps |-> clamp(lgd_round.val, 2000, 9000),
                 scoreConfidence |-> score_confidence])

\* price_cds with math.floor(x + 0.5) in the place of round_half_up
PriceWithFloor(obligor_id, tenor_days, features, pd_bps, lgd_bps, as_of) ==
    LET el_overflow == pd_bps # 0 /\ lgd_bps # 0
                       /\ Abs(pd_bps) > FMaxT \div Abs(lgd_bps)
        el_bps == FRound(pd_bps * lgd_bps)
        tenor_f == IntToFloat(tenor_days)
        liq_bps_raw == FAdd(50000, FMul(1, 50, tenor_f.val))
        jitter == jitter_bps(get_seed, obligor_id, tenor_days, as_of)
        jitter_f == IntToFloat(jitter.val)
        liq_bps == FAdd(liq_bps_raw, jitter_f.val)
        pd_f == IntToFloat(Max(pd_bps, 1))
        root == SqrtPremium(Max(pd_bps, 1))
        rp_bps == root[1]
        fair_spread_bps_raw == FAdd(FAdd(el_bps, liq_bps), rp_bps)
        shifted == FAdd(fair_spread_bps_raw, 5000)
        fair_round ==
            IF ~IsFinite(shifted) THEN FloatToInt(shifted)
            ELSE Ok(shifted \div 10000)
        volatility == Get(features, "volatility")
        country_risk == Get(features, "countryRisk")
        corr_raw == FMul(100, 1, FAdd(FAdd(150000, FMul(5, 2, volatility)),
                                      FMul(3, 2, country_risk)))
        corr_round == FloorHalfUp(corr_raw)
    IN  IF el_overflow THEN Raise("OverflowError")
        ELSE IF ~tenor_f.ok THEN tenor_f
        ELSE IF ~jitter.ok THEN jitter
        ELSE IF ~jitter_f.ok THEN jitter_f
        ELSE IF ~pd_f.ok THEN pd_f
        ELSE IF ~fair_round.ok THEN fair_round
        ELSE IF ~corr_round.ok THEN corr_round
        ELSE Ok([fairSpreadBps |-> clamp(fair_round.val, 25, 3000),
                 correlationBps |-> clamp(corr_round.val, 1000, 9000),
                 elBps |-> el_bps,
                 liqBps |-> liq_bps,
                 rpBps |-> rp_bps])

\* C30: the truncation toward zero of round_half_up is never visible in a model
\* output: for every input, negative features, tenor and jitter included,
\* pdBps, lgdBps, fairSpreadBps and correlationBps equal the values obtained
\* with floor(x + 0.5) in its place.
TruncationNeverVisible ==
    /\ \A x \in RoundInputs :
          (IsFinite(x) /\ round_half_up(x).val # FloorHalfUp(x).val) => x < -5000
    /\ Done("score_risk") =>
          LET floored == ScoreWithFloor(call.args.features, call.args.obligor_id,
                                        call.args.tenor_days, call.args.as_of)
          IN  /\ call.ret.ok = floored.ok
              /\ call.ret.err = floored.err
              /\ call.ret.ok => /\ call.ret.val.pdBps = floored.val.pdBps
                                /\ call.ret.val.lgdBps = floored.val.lgdBps
    /\ Done("price_cds") =>
          LET floored == PriceWithFloor(call.args.obligor_id, call.args.tenor_days,
                                        call.args.features, call.args.pd_bps,
                                        call.args.lgd_bps, call.args.as_of)
          IN  /\ call.ret.ok = floored.ok
              /\ call.ret.err = floored.err
              /\ call.ret.ok => /\ call.ret.val.fairSpreadBps = floored.val.fairSpreadBps
                                /\ call.ret.val.correlationBps = floored.val.correlationBps

\* a price whose raw correlation is -1000.0, which the two roundings take to
\* -999 and -1000, has been returned with the lowest correlation
NegativeCorrelationClamped ==
    /\ Done("price_cds") /\ call.ret.ok
    /\ pinned.fn = "score_risk"
    /\ Get(call.args.features, "volatility") = -100000
    /\ Get(call.args.features, "countryRisk") = 0
    /\ round_half_up(-10000000).val = -999
    /\ FloorHalfUp(-10000000).val = -1000
    /\ call.ret.val.correlationBps = 1000

(* services/pricing/determinism.py: the second copy of the hashing code *)

\* str.encode('utf-8'): one byte per character of the ASCII text json.dumps produces
str_encode(s) == [i \in 1..Len(s) |-> ord(s[i])]

\* eth_utils.keccak called with the text keyword converts through to_bytes first
keccak_text(text) == keccak(to_bytes(text))

determinism_canonical_features_hash(features) ==
    LET blob == str_encode(dumps(features))
    IN  keccak(blob)

determinism_model_id_hash(model_id) == keccak_text(model_id)

digest_for_signing_spread_first(portfolio_id, as_of, risk_score, correlation_bps, spread_bps, model_id_hash_, features_hash) ==
    LET encoded == abi_encode_spread_first(portfolio_id, as_of, risk_score, correlation_bps,
                                           spread_bps, model_id_hash_, features_hash)
    IN  IF encoded.ok THEN Ok(keccak(encoded.val)) ELSE encoded

digest_for_signing(portfolio_id, as_of, risk_score, correlation_bps, spread_bps, model_id_hash_, features_hash) ==
    LET encoded == abi_encode(portfolio_id, as_of, risk_score, correlation_bps,
                              spread_bps, model_id_hash_, features_hash)
    IN  IF encoded.ok THEN Ok(keccak(encoded.val)) ELSE encoded

(* The two copies side by side *)

ParityModelIds ==
    {<<>>,
     <<"b", "a", "s", "e", "l", "i", "n", "e", "-", "v", "0">>,
     <<"b", "a", "s", "e", "l", "i", "n", "e", "-", "v", "1">>,
     <<"B", "A", "S", "E", "L", "I", "N", "E", " ", "{", "}">>}

ParityCalls ==
    {Invoke("determinism.canonical_features_hash", [features |-> o]) : o \in CanonObjects}
    \cup {Invoke("determinism.model_id_hash", [model_id |-> m]) : m \in ParityModelIds}
    \cup {Invoke("digest_for_signing", a) : a \in PayloadArgs \cup UntypedArgs}

Return_determinism_canonical_features_hash ==
    /\ Running("determinism.canonical_features_hash")
    /\ call' = [call EXCEPT !.ret = Ok(determinism_canonical_features_hash(call.args.features))]
    /\ UNCHANGED <<env, backend, pinned, app>>

Return_determinism_model_id_hash ==
    /\ Running("determinism.model_id_hash")
    /\ call' = [call EXCEPT !.ret = Ok(determinism_model_id_hash(call.args.model_id))]
    /\ UNCHANGED <<env, backend, pinned, app>>

Return_digest_for_signing ==
    /\ Running("digest_for_signing")
    /\ LET a == call.args
       IN  call' = [call EXCEPT !.ret = digest_for_signing(a.portfolio_id, a.as_of, a.risk_score,
                                                          a.correlation_bps, a.spread_bps,
                                                          a.model_id_hash, a.features_hash)]
    /\ UNCHANGED <<env, backend, pinned, app>>

Return_model_id_hash ==
    /\ Running("model_id_hash")
    /\ call' = [call EXCEPT !.ret = Ok(model_id_hash(call.args.model_id))]
    /\ UNCHANGED <<env, backend, pinned, app>>

\* the name signing.py gives the function determinism.py defines under the name fn
SigningCopy(fn) ==
    CASE fn = "determinism.canonical_features_hash" -> "canonical_features_hash"
      [] fn = "determinism.model_id_hash" -> "model_id_hash"
      [] fn = "digest_for_signing" -> "encode_payload"
      [] OTHER -> "none"

\* the caller hands the same arguments to the copy in signing.py
Invoke_signing_copy ==
    /\ pinned = NoCall
    /\ SigningCopy(call.fn) # "none"
    /\ call.ret.err # "pending"
    /\ pinned' = call
    /\ call' = Invoke(SigningCopy(call.fn), call.args)
    /\ UNCHANGED <<env, backend, app>>

InitParity ==
    /\ env = EnvUnset
    /\ backend = "coincurve"
    /\ call \in ParityCalls
    /\ pinned = NoCall
    /\ app = NotImported

NextParity ==
    \/ Return_determinism_canonical_features_hash
    \/ Return_determinism_model_id_hash
    \/ Return_digest_for_signing
    \/ Invoke_signing_copy
    \/ Return_canonical_features_hash
    \/ Return_model_id_hash
    \/ Return_encode_payload

SpecParity == InitParity /\ [][NextParity]_vars

\* the signing.py copy has answered the arguments determinism.py answered before
BothCopiesDone == SigningCopy(pinned.fn) = call.fn /\ call.ret.err # "pending"

\* C29: whenever the determinism.py function and its copy in signing.py have
\* been applied to the same arguments (a feature mapping, a model id or a
\* payload tuple), both raise the same error or both return the same bytes.
CopiesAgree ==
    BothCopiesDone =>
        /\ call.ret.ok = pinned.ret.ok
        /\ call.ret.err = pinned.ret.err
        /\ call.ret.ok => call.ret.val = pinned.ret.val

\* Both copies have hashed the same well-typed payload tuple, one whose two
\* basis-point fields differ, and returned the same digest.
PayloadDigestedTwice ==
    /\ BothCopiesDone
    /\ call.fn = "encode_payload"
    /\ call.ret.ok
    /\ call.args.correlation_bps # call.args.spread_bps
    /\ call.ret.val = pinned.ret.val

====
